---- MODULE Spec2Model ----
(***************************************************************************)
(* The thresholding-and-masked-export pipeline of threshold-data.py        *)
(* (threshold_reasonably, free_bound_ratio, asc_export_mas) and the grid   *)
(* writer of fileutils.py (asc_export); with them the scalar               *)
(* free_bound_ratio of calc-freebound-ratio.py, the parallel histogram     *)
(* accumulation of histogram-dir.py, the conversion loop of                *)
(* asc-to-greyscale-tiff.py and the file groupings of stats-to-boxplot.py. *)
(*                                                                         *)
(* A grid is a function from pixel positions to values.  Where only the    *)
(* elementwise operations of the pipeline are studied the positions are a  *)
(* flat index set; where the shape matters they are the pairs <<i, j>> of  *)
(* a row i and a column j, counted from 0.  A value is a float: a finite   *)
(* number (kept as a reduced fraction n/d), nan, +inf or -inf.  A path or  *)
(* a file name is a string.  Of the console output, the lines of           *)
(* the functions modelled are kept in `log`.                               *)
(***************************************************************************)
EXTENDS Integers, Sequences, FiniteSets, Bags, TLC

\* Number of pixels of a grid in the model.
NPix == 2

Pixels == 1..NPix

(***************************************************************************)
(* Floats                                                                  *)
(***************************************************************************)
Abs(x) == IF x < 0 THEN -x ELSE x

RECURSIVE Gcd(_, _)
Gcd(a, b) == IF b = 0 THEN a ELSE Gcd(b, a % b)

\* The finite float n/d (d # 0), reduced, with a positive denominator.
Num(n, d) ==
    LET g == Gcd(Abs(n), Abs(d))
        s == IF d < 0 THEN -1 ELSE 1
    IN  [k |-> "num", n |-> s * (n \div g), d |-> s * (d \div g)]

Whole(n) == Num(n, 1)
NaN == [k |-> "nan", n |-> 0, d |-> 1]
PosInf == [k |-> "inf", n |-> 1, d |-> 1]
NegInf == [k |-> "inf", n |-> -1, d |-> 1]
Zero == Whole(0)

\* a > b on floats: every comparison with nan is false.
Gt(a, b) ==
    CASE a.k = "nan" \/ b.k = "nan" -> FALSE
      [] a.k = "inf" /\ b.k = "inf" -> a.n > b.n
      [] a.k = "inf" -> a.n > 0
      [] b.k = "inf" -> b.n < 0
      [] OTHER -> a.n * b.d > b.n * a.d

\* a <= b on floats.
Le(a, b) == a.k # "nan" /\ b.k # "nan" /\ ~Gt(a, b)

Sign(v) == IF v.n < 0 THEN -1 ELSE 1

\* Mutant: floor division (//) for true division.
Div_floor(a, b) ==
    IF a.k = "num" /\ b.k = "num" /\ b.n # 0
    THEN Whole((a.n * b.d) \div (a.d * b.n))
    ELSE NaN

\* a / b on floats under np.errstate(divide='ignore', invalid='ignore'):
\* x/0 is +-inf, 0/0 and inf/inf are nan, nothing is raised.
Div(a, b) ==
    CASE a.k = "nan" \/ b.k = "nan" -> NaN
      [] a.k = "inf" /\ b.k = "inf" -> NaN
      [] a.k = "inf" -> IF a.n * Sign(b) > 0 THEN PosInf ELSE NegInf
      [] b.k = "inf" -> Zero
      [] b.n = 0 -> IF a.n = 0 THEN NaN
                    ELSE IF a.n > 0 THEN PosInf ELSE NegInf
      [] OTHER -> Num(a.n * b.d, a.d * b.n)

\* a * b on floats: inf * 0 is nan.
Mul(a, b) ==
    CASE a.k = "nan" \/ b.k = "nan" -> NaN
      [] a.k = "inf" \/ b.k = "inf" ->
             IF a.n = 0 \/ b.n = 0 THEN NaN
             ELSE IF Sign(a) * Sign(b) > 0 THEN PosInf ELSE NegInf
      [] OTHER -> Num(a.n * b.n, a.d * b.d)

\* a + b on floats: inf + -inf is nan.
Add(a, b) ==
    CASE a.k = "nan" \/ b.k = "nan" -> NaN
      [] a.k = "inf" /\ b.k = "inf" -> IF a.n = b.n THEN a ELSE NaN
      [] a.k = "inf" -> a
      [] b.k = "inf" -> b
      [] OTHER -> Num(a.n * b.d + b.n * a.d, a.d * b.d)

\* The sum of the values of the function terms.
RECURSIVE SumOver(_)
SumOver(terms) ==
    IF DOMAIN terms = {} THEN Zero
    ELSE LET q == CHOOSE q \in DOMAIN terms : TRUE
         IN  Add(terms[q], SumOver([r \in DOMAIN terms \ {q} |-> terms[r]]))

(***************************************************************************)
(* Text of a number in a grid file.  A token is nan, inf, -inf or a        *)
(* decimal m * 10^e with no trailing zero in m.                            *)
(***************************************************************************)
\* Significant digits of the format '%.6g' of np.savetxt.
SigDigits == 6

RECURSIVE Pow10(_)
Pow10(e) == IF e = 0 THEN 1 ELSE 10 * Pow10(e - 1)

\* floor(log10(n/d)) for n, d > 0.
RECURSIVE FloorLog10(_, _)
FloorLog10(n, d) ==
    IF n >= 10 * d THEN 1 + FloorLog10(n, 10 * d)
    ELSE IF n < d THEN FloorLog10(10 * n, d) - 1
    ELSE 0

\* n/d (n >= 0, d > 0) rounded to the nearest integer, ties to even.
RoundHalfEven(n, d) ==
    LET q == n \div d
        r == n % d
    IN  IF 2 * r > d \/ (2 * r = d /\ q % 2 = 1) THEN q + 1 ELSE q

\* The decimal m * 10^e without trailing zeros in m.
RECURSIVE Dec(_, _)
Dec(m, e) ==
    IF m = 0 THEN [k |-> "num", m |-> 0, e |-> 0]
    ELSE IF m % 10 = 0 THEN Dec(m \div 10, e + 1)
    ELSE [k |-> "num", m |-> m, e |-> e]

\* '%.6g' % v: v rounded to SigDigits significant decimal digits.
FormatG(v) ==
    IF v.k # "num" THEN [k |-> v.k, m |-> v.n, e |-> 0]
    ELSE IF v.n = 0 THEN Dec(0, 0)
    ELSE
        LET a == Abs(v.n)
            x == FloorLog10(a, v.d)
            s == SigDigits - 1 - x
            m0 == IF s >= 0 THEN RoundHalfEven(a * Pow10(s), v.d)
                  ELSE RoundHalfEven(a, v.d * Pow10(-s))
        IN  Dec(Sign(v) * m0, -s)

\* float(token), the value np.loadtxt reads back from a token.
ParseTok(t) ==
    IF t.k = "nan" THEN NaN
    ELSE IF t.k = "inf" THEN (IF t.m > 0 THEN PosInf ELSE NegInf)
    ELSE IF t.e >= 0 THEN Whole(t.m * Pow10(t.e))
    ELSE Num(t.m, Pow10(-t.e))

(***************************************************************************)
(* The data of a run                                                       *)
(***************************************************************************)
\* threshold-data.py, asc_load_all_related: the kinds a dataset is loaded
\* with, in the order the dict receives them.
import_suffixes ==
    << "a1", "a2", "t1", "t2", "a1[%]", "a2[%]", "chi", "phasor_G",
       "phasor_S", "scatter", "color coded value", "photons", "offset",
       "shift" >>

\* The kinds the datasets of the model hold, and the raw values of a pixel.
DataKinds == {"a1", "a2"}
InValues == {Whole(-1), Zero, Whole(2), Whole(3)}
Grids == [Pixels -> InValues]

\* The kinds and ranges the threshold specifications of the model hold:
\* the entries (0, inf) of a1 and a2 and (chisq_min, chisq_max) of chi, and
\* for a1 also a range with a finite maximum.
ThresholdKinds == {"a1", "a2", "chi"}
Ranges(kind) ==
    IF kind = "chi" THEN {<<Num(1, 2), Whole(2)>>}
    ELSE IF kind = "a2" THEN {<<Zero, PosInf>>}
    ELSE {<<Zero, PosInf>>, <<Zero, Whole(2)>>}

Datasets == UNION {[ks -> Grids] : ks \in SUBSET DataKinds}

ThresholdSpecs ==
    UNION {{th \in [ks -> UNION {Ranges(k) : k \in ThresholdKinds}] :
               \A k \in ks : th[k] \in Ranges(k)} :
           ks \in SUBSET ThresholdKinds}

\* threshold-data.py, __main__: the constants of the experiment and the
\* threshold specification built from them.
freq == 80
pix_dwell == 5
frames_acc == 45
min_phot_confident_fit == 3000
chisq_min == Num(1, 2)
chisq_max == Whole(2)

main_thresholds ==
    [tkey \in {"a1", "a2", "t1", "t2", "photons", "chi", "binned_photons"} |->
        CASE tkey = "photons" ->
                 <<Zero, Num(3 * freq * pix_dwell * frames_acc, 10)>>
          [] tkey = "chi" -> <<chisq_min, chisq_max>>
          [] tkey = "binned_photons" -> <<Whole(min_phot_confident_fit), PosInf>>
          [] OTHER -> <<Zero, PosInf>>]

\* The keys of a dict in insertion order: a dataset is filled in the order
\* of import_suffixes, add_binned_photons inserts 'binned_photons' after
\* them, and 'ar' is inserted last.
KeyOrder == import_suffixes \o <<"binned_photons", "ar">>
Keys(d) == SelectSeq(KeyOrder, LAMBDA k : k \in DOMAIN d)

\* The arguments of the export: args.out's stem and args.suffix's default.
OutStem == "out/pos_0000"
Suffix == ".th.asc"

VARIABLES
    pc,             \* where the run is
    dataset,        \* kind -> grid
    thresholds,     \* kind -> <<min, max>>
    pending,        \* the entries of thresholds the loop has yet to visit
    combined_mask,  \* pixel -> BOOLEAN
    new_dataset,    \* kind -> masked grid [data, mask]
    dry_run,        \* the export's dry_run argument
    writable,       \* whether np.savetxt can write its destination
    todo,           \* the items of the dataset the export has yet to visit
    calls,          \* the paths asc_export was called with, in order
    files,          \* path -> grid of tokens: the files on disk
    args,           \* the arguments of the call or of the command line
    result,         \* what the function under study returned
    log,            \* the lines printed, in order
    locals          \* the other local variables of the function running

vars ==
    << pc, dataset, thresholds, pending, combined_mask, new_dataset,
       dry_run, writable, todo, calls, files, args, result, log, locals >>

(***************************************************************************)
(* threshold_reasonably                                                    *)
(***************************************************************************)
\* Mutant: the range taken as exclusive (>= for >).
threshold_failed_exclusive(data, min_thresh, max_thresh) ==
    [p \in DOMAIN data |->
        ~Gt(data[p], min_thresh) \/ ~Gt(max_thresh, data[p])]

\* Mutant: the comparison with the maximum turned around (max > data).
threshold_failed_flipped(data, min_thresh, max_thresh) ==
    [p \in DOMAIN data |->
        Gt(min_thresh, data[p]) \/ Gt(max_thresh, data[p])]

\* (np.array(min_thresh) > data) | (data > np.array(max_thresh))
threshold_failed(data, min_thresh, max_thresh) ==
    [p \in DOMAIN data |->
        Gt(min_thresh, data[p]) \/ Gt(data[p], max_thresh)]

\* Mutant: the running mask overwritten by the entry's failures (= for |=).
threshold_step_overwrite(mask, ds, th, tkey) ==
    IF tkey \notin DOMAIN ds THEN mask
    ELSE threshold_failed(ds[tkey], th[tkey][1], th[tkey][2])

\* Mutant: a kind that is not in the dataset fails at every pixel.
threshold_step_missing_fails(mask, ds, th, tkey) ==
    IF tkey \notin DOMAIN ds THEN [p \in DOMAIN mask |-> TRUE]
    ELSE LET failed == threshold_failed(ds[tkey], th[tkey][1], th[tkey][2])
         IN  [p \in DOMAIN mask |-> mask[p] \/ failed[p]]

\* One pass of the loop over thresholds: the mask after the entry tkey.
threshold_step(mask, ds, th, tkey) ==
    IF tkey \notin DOMAIN ds THEN mask
    ELSE LET failed == threshold_failed(ds[tkey], th[tkey][1], th[tkey][2])
         IN  [p \in DOMAIN mask |-> mask[p] \/ failed[p]]

\* The loop over thresholds run from the mask `mask` over the entries in
\* the order `order`.
RECURSIVE threshold_loop(_, _, _, _)
threshold_loop(mask, ds, th, order) ==
    IF order = <<>> THEN mask
    ELSE threshold_loop(threshold_step(mask, ds, th, Head(order)),
                        ds, th, Tail(order))

(***************************************************************************)
(* Shapes.  The index set of an array is its shape: two arrays have one    *)
(* shape exactly when they have one index set.                             *)
(***************************************************************************)
\* The index set of an array of h rows and w columns.
Index(h, w) == (0..(h - 1)) \X (0..(w - 1))

\* ndarray.size
size(a) == Cardinality(DOMAIN a)

\* Whether a and b can be combined elementwise (a | b, a / b).  np.loadtxt
\* gives a file of at least two lines of at least two values a 2-D array
\* without a dimension of length 1, and two such arrays broadcast only if
\* their shapes are equal; otherwise numpy raises ValueError.
broadcastable(a, b) == DOMAIN a = DOMAIN b

\* The place of the index p among the indices dom in row-major (C) order.
Rank(dom, p) ==
    Cardinality({q \in dom : q[1] < p[1] \/ (q[1] = p[1] /\ q[2] <= p[2])})

\* np.reshape(mask, data.shape) for mask.size = data.size.
reshape(mask, dom) ==
    [p \in dom |->
        mask[CHOOSE q \in DOMAIN mask : Rank(DOMAIN mask, q) = Rank(dom, p)]]

\* Whether ma.masked_array(data, mask=mask) raises MaskError: the shapes
\* differ, the mask is not a single value and the sizes differ.
mask_error(data, mask) ==
    /\ DOMAIN mask # DOMAIN data
    /\ size(mask) # 1
    /\ size(mask) # size(data)

\* Mutant: the masked positions of the data are overwritten with 0.
masked_array_overwrites(data, mask) ==
    [data |-> [p \in DOMAIN data |-> IF mask[p] THEN Zero ELSE data[p]],
     mask |-> mask]

\* ma.masked_array(data, mask=mask): a mask of another shape is resized
\* when it is a single value, and reshaped when it has the data's size.
masked_array(data, mask) ==
    [data |-> data,
     mask |-> IF DOMAIN mask = DOMAIN data THEN mask
              ELSE IF size(mask) = 1
              THEN [p \in DOMAIN data |-> mask[CHOOSE q \in DOMAIN mask : TRUE]]
              ELSE reshape(mask, DOMAIN data)]

\* Mutant: only the denominator's raw value is tested.
free_bound_ratio_denominator_only(m1, m2) ==
    LET invalid_mask ==
            [p \in DOMAIN m1.data |->
                m1.mask[p] \/ m2.mask[p] \/ Le(m2.data[p], Zero)]
        ratio_data == [p \in DOMAIN m1.data |-> Div(m1.data[p], m2.data[p])]
    IN  masked_array(ratio_data, invalid_mask)

\* Mutant: the masks of the inputs are dropped.
free_bound_ratio_drop_masks(m1, m2) ==
    LET invalid_mask ==
            [p \in DOMAIN m1.data |->
                Le(m1.data[p], Zero) \/ Le(m2.data[p], Zero)]
        ratio_data == [p \in DOMAIN m1.data |-> Div(m1.data[p], m2.data[p])]
    IN  masked_array(ratio_data, invalid_mask)

\* free_bound_ratio(m1, m2) of threshold-data.py
free_bound_ratio(m1, m2) ==
    LET invalid_mask ==
            [p \in DOMAIN m1.data |->
                m1.mask[p] \/ m2.mask[p]
                \/ Le(m1.data[p], Zero) \/ Le(m2.data[p], Zero)]
        ratio_data == [p \in DOMAIN m1.data |-> Div(m1.data[p], m2.data[p])]
    IN  masked_array(ratio_data, invalid_mask)

\* Mutant: each kind masked by the failures of its own range alone.
wrap_dataset_own_mask(ds, th, mask) ==
    LET own(key) ==
            IF key \in DOMAIN th
            THEN threshold_failed(ds[key], th[key][1], th[key][2])
            ELSE [p \in DOMAIN mask |-> FALSE]
        wrapped == [key \in DOMAIN ds |-> masked_array(ds[key], own(key))]
    IN  IF "a1" \in DOMAIN wrapped /\ "a2" \in DOMAIN wrapped
        THEN ("ar" :> free_bound_ratio(wrapped["a1"], wrapped["a2"])) @@ wrapped
        ELSE wrapped

\* Whether the lines after the loop raise: a kind that the mask does not
\* fit (MaskError), or a1 and a2 of shapes that do not broadcast.
wrap_error(ds, mask) ==
    \/ \E key \in DOMAIN ds : mask_error(ds[key], mask)
    \/ /\ "a1" \in DOMAIN ds
       /\ "a2" \in DOMAIN ds
       /\ ~broadcastable(ds["a1"], ds["a2"])

\* Mutant: the ratio is never added.
wrap_dataset_no_ratio(ds, th, mask) ==
    [key \in DOMAIN ds |-> masked_array(ds[key], mask)]

\* The dataset threshold_reasonably returns for a finished mask.
wrap_dataset(ds, th, mask) ==
    LET wrapped == [key \in DOMAIN ds |-> masked_array(ds[key], mask)]
    IN  IF "a1" \in DOMAIN wrapped /\ "a2" \in DOMAIN wrapped
        THEN ("ar" :> free_bound_ratio(wrapped["a1"], wrapped["a2"])) @@ wrapped
        ELSE wrapped

(***************************************************************************)
(* asc_export_mas, asc_export_ma, asc_export                               *)
(***************************************************************************)
\* Mutant: the raw data, masked positions included.
filled_raw(m, fill_value) == m.data

\* Mutant: masked positions filled with 0 whatever the fill value is.
filled_zero(m, fill_value) ==
    [p \in DOMAIN m.data |-> IF m.mask[p] THEN Zero ELSE m.data[p]]

\* data.filled(fill_value=fill_value) of a masked grid
filled(m, fill_value) ==
    [p \in DOMAIN m.data |-> IF m.mask[p] THEN fill_value ELSE m.data[p]]

\* Mutant: all the values written on one line.
savetxt_one_line(matrix) ==
    [p \in {<<0, k>> : k \in 0..(size(matrix) - 1)} |->
        FormatG(matrix[CHOOSE q \in DOMAIN matrix :
                           Rank(DOMAIN matrix, q) = p[2] + 1])]

\* The text np.savetxt(path, matrix, fmt='%.6g') writes: a token per value,
\* a line per row.
savetxt(matrix) == [p \in DOMAIN matrix |-> FormatG(matrix[p])]

\* Mutant: dry_run is not looked at.
asc_export_always_writes(fs, asc_filepath, matrix, dry, can_write) ==
    IF can_write
    THEN (asc_filepath :> [p \in DOMAIN matrix |-> FormatG(matrix[p])]) @@ fs
    ELSE fs

\* asc_export(asc_filepath, matrix, dry_run=dry): the files afterwards.  A
\* dry run writes nothing; an error of np.savetxt (can_write is false) is
\* caught and reported, and leaves no file written.
asc_export(fs, asc_filepath, matrix, dry, can_write) ==
    IF dry THEN fs
    ELSE IF can_write THEN (asc_filepath :> savetxt(matrix)) @@ fs
    ELSE fs

\* asc_export_ma(path, data, invalid_value_fill, dry_run)
asc_export_ma(fs, path, data, invalid_value_fill, dry, can_write) ==
    asc_export(fs, path, filled(data, invalid_value_fill), dry, can_write)

\* pathstem + "_" + key + suffix
export_path(pathstem, key, suffix) == pathstem \o "_" \o key \o suffix

NoGrid == <<>>

\* The files on disk before the run: an earlier export of a1, and a file
\* of a kind that no dataset of the model holds.
StaleGrid == [p \in Pixels |-> Dec(7, 0)]
InitFiles ==
    (export_path(OutStem, "a1", Suffix) :> StaleGrid)
    @@ (export_path(OutStem, "t1", Suffix) :> StaleGrid)

Init ==
    /\ pc = "start"
    /\ dataset \in Datasets
    /\ thresholds \in ThresholdSpecs
    /\ pending = {}
    /\ combined_mask = NoGrid
    /\ new_dataset = <<>>
    /\ dry_run = FALSE
    /\ writable = TRUE
    /\ todo = <<>>
    /\ calls = <<>>
    /\ files = InitFiles
    /\ args = <<>>
    /\ result = <<>>
    /\ log = <<>>
    /\ locals = <<>>

\* first_key = list(dataset.keys())[0]; combined_mask = np.zeros_like(...):
\* an empty dataset has no first key (IndexError).
threshold_reasonably_begin ==
    /\ pc = "start"
    /\ IF DOMAIN dataset = {}
       THEN /\ pc' = "error"
            /\ UNCHANGED <<pending, combined_mask>>
       ELSE /\ pc' = "loop"
            /\ pending' = DOMAIN thresholds
            /\ combined_mask' =
                   [p \in DOMAIN dataset[Head(Keys(dataset))] |-> FALSE]
    /\ UNCHANGED <<dataset, thresholds, new_dataset, dry_run, writable,
                   todo, calls, files>>
    /\ UNCHANGED <<args, result, log>>
    /\ UNCHANGED locals

\* for tkey in thresholds: ... combined_mask = combined_mask | threshold_failed
\* The order of the entries is the dict's; the model takes any order.
\* An entry whose grid does not broadcast with the mask raises ValueError.
threshold_reasonably_iter ==
    /\ pc = "loop"
    /\ \E tkey \in pending :
        IF tkey \in DOMAIN dataset
           /\ ~broadcastable(combined_mask, dataset[tkey])
        THEN /\ pc' = "error"
             /\ UNCHANGED <<combined_mask, pending>>
        ELSE /\ combined_mask' =
                    threshold_step(combined_mask, dataset, thresholds, tkey)
             /\ pending' = pending \ {tkey}
             /\ pc' = pc
    /\ UNCHANGED <<dataset, thresholds, new_dataset, dry_run, writable,
                   todo, calls, files>>
    /\ UNCHANGED <<args, result, log>>
    /\ UNCHANGED locals

\* new_dataset = {...}; new_dataset['ar'] = ...; return new_dataset
threshold_reasonably_return ==
    /\ pc = "loop"
    /\ pending = {}
    /\ IF wrap_error(dataset, combined_mask)
       THEN /\ pc' = "error"
            /\ UNCHANGED new_dataset
       ELSE /\ new_dataset' = wrap_dataset(dataset, thresholds, combined_mask)
            /\ pc' = "thresholded"
    /\ UNCHANGED <<dataset, thresholds, pending, combined_mask, dry_run,
                   writable, todo, calls, files>>
    /\ UNCHANGED <<args, result, log>>
    /\ UNCHANGED locals

\* asc_export_mas(pathstem, dataset, suffix, np.nan, dry_run): the call.
asc_export_mas_begin ==
    /\ pc = "thresholded"
    /\ \E dry \in BOOLEAN, can_write \in BOOLEAN :
        /\ dry_run' = dry
        /\ writable' = can_write
    /\ todo' = Keys(new_dataset)
    /\ pc' = "export"
    /\ UNCHANGED <<dataset, thresholds, pending, combined_mask, new_dataset,
                   calls, files>>
    /\ UNCHANGED <<args, result, log>>
    /\ UNCHANGED locals

\* for key, data in dataset.items(): asc_export_ma(pathstem + "_" + key +
\* suffix, data, invalid_value_fill, dry_run, verbose)
asc_export_mas_iter ==
    /\ pc = "export"
    /\ todo # <<>>
    /\ LET key == Head(todo)
           path == export_path(OutStem, key, Suffix)
       IN  /\ calls' = Append(calls, path)
           /\ files' = asc_export_ma(files, path, new_dataset[key], NaN,
                                     dry_run, writable)
    /\ todo' = Tail(todo)
    /\ UNCHANGED <<pc, dataset, thresholds, pending, combined_mask,
                   new_dataset, dry_run, writable>>
    /\ UNCHANGED <<args, result, log>>
    /\ UNCHANGED locals

asc_export_mas_return ==
    /\ pc = "export"
    /\ todo = <<>>
    /\ pc' = "done"
    /\ UNCHANGED <<dataset, thresholds, pending, combined_mask, new_dataset,
                   dry_run, writable, todo, calls, files>>
    /\ UNCHANGED <<args, result, log>>
    /\ UNCHANGED locals

Next ==
    \/ threshold_reasonably_begin
    \/ threshold_reasonably_iter
    \/ threshold_reasonably_return
    \/ asc_export_mas_begin
    \/ asc_export_mas_iter
    \/ asc_export_mas_return

Spec == Init /\ [][Next]_vars

(***************************************************************************)
(* free_bound_ratio on its own: any two masked grids of one shape.         *)
(***************************************************************************)
MaskedGrids ==
    {masked_array(data, mask) : data \in Grids, mask \in [Pixels -> BOOLEAN]}

InitRatio ==
    /\ pc = "ratio"
    /\ \E m1 \in MaskedGrids, m2 \in MaskedGrids :
        new_dataset = ("a1" :> m1) @@ ("a2" :> m2)
    /\ dataset = <<>>
    /\ thresholds = <<>>
    /\ pending = {}
    /\ combined_mask = NoGrid
    /\ dry_run = FALSE
    /\ writable = TRUE
    /\ todo = <<>>
    /\ calls = <<>>
    /\ files = InitFiles
    /\ args = <<>>
    /\ result = <<>>
    /\ log = <<>>
    /\ locals = <<>>

\* new_dataset['ar'] = free_bound_ratio(new_dataset['a1'], new_dataset['a2'])
free_bound_ratio_call ==
    /\ pc = "ratio"
    /\ new_dataset' =
           ("ar" :> free_bound_ratio(new_dataset["a1"], new_dataset["a2"]))
           @@ new_dataset
    /\ pc' = "ratio_done"
    /\ UNCHANGED <<dataset, thresholds, pending, combined_mask, dry_run,
                   writable, todo, calls, files>>
    /\ UNCHANGED <<args, result, log>>
    /\ UNCHANGED locals

NextRatio == free_bound_ratio_call

SpecRatio == InitRatio /\ [][NextRatio]_vars

(***************************************************************************)
(* free_bound_ratio of calc-freebound-ratio.py, which marks the invalid    *)
(* pixels of the ratio with a scalar and writes into the m2 it is given.   *)
(***************************************************************************)
\* a == b on floats
Eq(a, b) == a.k # "nan" /\ b.k # "nan" /\ a = b

\* free_bound_ratio(m1, m2, invalid) on arrays of one shape: the ratio
\* returned and m2 as the call leaves it
scalar_free_bound_ratio(m1, m2, invalid) ==
    LET m2a == [p \in DOMAIN m2 |->
                    IF Le(m1[p], Zero) THEN invalid ELSE m2[p]]
        m2b == [p \in DOMAIN m2 |->
                    IF Le(m2a[p], Zero) THEN invalid ELSE m2a[p]]
        ratio == [p \in DOMAIN m1 |-> Div(m1[p], m2b[p])]
    IN  [ratio |-> [p \in DOMAIN ratio |->
                        IF Eq(m2b[p], invalid) THEN invalid ELSE ratio[p]],
         m2 |-> m2b]

\* The values of --invalid: the -1 of the usage notes, 0, a value a grid
\* can hold, and nan
Sentinels == {Whole(-1), Zero, Whole(2), NaN}

InitScalarRatio ==
    /\ pc = "scalar_ratio"
    /\ \E m1 \in Grids, m2 \in Grids, invalid \in Sentinels :
        args = [m1 |-> m1, m2 |-> m2, invalid |-> invalid]
    /\ new_dataset = <<>>
    /\ dataset = <<>>
    /\ thresholds = <<>>
    /\ pending = {}
    /\ combined_mask = NoGrid
    /\ dry_run = FALSE
    /\ writable = TRUE
    /\ todo = <<>>
    /\ calls = <<>>
    /\ files = <<>>
    /\ result = <<>>
    /\ log = <<>>
    /\ locals = <<>>

\* result = free_bound_ratio(args.m1, args.m2, args.invalid); calls keeps
\* the arguments as they were passed, args.m2 is the array written into
scalar_free_bound_ratio_call ==
    /\ pc = "scalar_ratio"
    /\ LET r == scalar_free_bound_ratio(args.m1, args.m2, args.invalid)
       IN  /\ result' = r.ratio
           /\ args' = [args EXCEPT !.m2 = r.m2]
    /\ calls' = Append(calls, args)
    /\ pc' = "scalar_done"
    /\ UNCHANGED <<dataset, thresholds, pending, combined_mask, new_dataset,
                   dry_run, writable, todo, files, log, locals>>

NextScalarRatio == scalar_free_bound_ratio_call

SpecScalarRatio == InitScalarRatio /\ [][NextScalarRatio]_vars

(***************************************************************************)
(* add_binned_photons: the photons summed over a square window.            *)
(***************************************************************************)
\* The shape of the photons grids of the model, and the largest half-window.
BinShape == <<3, 3>>
MaxBin == 1

\* np.ones((n, n))
ones(n) == [p \in Index(n, n) |-> Whole(1)]

\* The element (m, n) of the full 2-D convolution of in1 and in2: the sum
\* of in1[a, b] * in2[m - a, n - b] over the places where both exist (the
\* fill value 0 elsewhere adds nothing).
convolve_full(in1, in2, mn) ==
    LET at == {q \in DOMAIN in1 :
                  <<mn[1] - q[1], mn[2] - q[2]>> \in DOMAIN in2}
    IN  SumOver([q \in at |->
                    Mul(in1[q], in2[<<mn[1] - q[1], mn[2] - q[2]>>])])

\* Mutant: the output taken from the top left of the full convolution.
convolve2d_uncentred(in1, in2, side) ==
    [p \in DOMAIN in1 |-> convolve_full(in1, in2, p)]

\* convolve2d(in1, in2, boundary='fill', mode='same', fillvalue=0) for a
\* kernel in2 of `side` rows and columns: the part of the full convolution
\* of in1's shape, centred.
convolve2d(in1, in2, side) ==
    LET off == (side - 1) \div 2
    IN  [p \in DOMAIN in1 |->
            convolve_full(in1, in2, <<p[1] + off, p[2] + off>>)]

\* add_binned_photons(dataset, BHbin) where the dataset has 'photons'.
add_binned_photons(ds, BHbin) ==
    ("binned_photons" :>
        convolve2d(ds["photons"], ones(2 * BHbin + 1), 2 * BHbin + 1))
    @@ ds

PhotonGrids == [Index(BinShape[1], BinShape[2]) -> {Zero, Whole(1)}]

InitBin ==
    /\ pc = "bin"
    /\ \E g \in PhotonGrids : dataset = ("photons" :> g)
    /\ \E h \in 0..MaxBin : args = [bh_bin |-> h]
    /\ result = <<>>
    /\ log = <<>>
    /\ thresholds = <<>>
    /\ pending = {}
    /\ combined_mask = NoGrid
    /\ new_dataset = <<>>
    /\ dry_run = FALSE
    /\ writable = TRUE
    /\ todo = <<>>
    /\ calls = <<>>
    /\ files = <<>>
    /\ locals = <<>>

\* dataset = add_binned_photons(dataset, bin): without 'photons' the
\* subscript dataset['photons'] raises KeyError.
add_binned_photons_call ==
    /\ pc = "bin"
    /\ IF "photons" \in DOMAIN dataset
       THEN /\ dataset' = add_binned_photons(dataset, args.bh_bin)
            /\ pc' = "start"
       ELSE /\ pc' = "error"
            /\ UNCHANGED dataset
    /\ UNCHANGED <<thresholds, pending, combined_mask, new_dataset, dry_run,
                   writable, todo, calls, files, args, result, log>>
    /\ UNCHANGED locals

NextBin == add_binned_photons_call

SpecBin == InitBin /\ [][NextBin]_vars

(***************************************************************************)
(* _asc_get_related_stem: the stem of the file set a path belongs to.      *)
(***************************************************************************)
\* s.endswith(suffix)
endswith(s, suffix) ==
    /\ Len(s) >= Len(suffix)
    /\ SubSeq(s, Len(s) - Len(suffix) + 1, Len(s)) = suffix

\* s.replace(old, new): every occurrence of old, from the left, without
\* overlap.
RECURSIVE replace(_, _, _)
replace(s, old, new) ==
    IF Len(s) < Len(old) THEN s
    ELSE IF SubSeq(s, 1, Len(old)) = old
    THEN new \o replace(SubSeq(s, Len(old) + 1, Len(s)), old, new)
    ELSE SubSeq(s, 1, 1) \o replace(SubSeq(s, 2, Len(s)), old, new)

\* s.rfind(c) for a character c, counted from 1; 0 when c is not in s.
rfind(s, c) ==
    LET at == {i \in 1..Len(s) : SubSeq(s, i, i) = c}
    IN  IF at = {} THEN 0 ELSE CHOOSE i \in at : \A j \in at : j <= i

\* os.path.splitext(p): the extension starts at the last dot of the last
\* component, unless only dots come before it in that component.
splitext(p) ==
    LET sepIndex == rfind(p, "/")
        dotIndex == rfind(p, ".")
    IN  IF /\ dotIndex > sepIndex
           /\ \E i \in (sepIndex + 1)..(dotIndex - 1) : SubSeq(p, i, i) # "."
        THEN [name |-> SubSeq(p, 1, dotIndex - 1),
              ext |-> SubSeq(p, dotIndex, Len(p))]
        ELSE [name |-> p, ext |-> ""]

\* mutation: a list with a suffix, G, that ends another one, phasor_G
export_suffixes_with_G ==
    << "a1", "a2", "t1", "t2", "a1[%]", "a2[%]", "chi", "G", "phasor_G",
       "phasor_S", "scatter", "color coded value", "photons", "offset",
       "shift", "color_image" >>

export_suffixes ==
    << "a1", "a2", "t1", "t2", "a1[%]", "a2[%]", "chi", "phasor_G",
       "phasor_S", "scatter", "color coded value", "photons", "offset",
       "shift", "color_image" >>

\* The two lines _asc_get_related_stem prints to stderr.
stem_warning(path) ==
    << "Warning: In asc_load_related: No related suffix found for "
           \o path \o ".",
       "Assuming no extension was indended and adding suffix to match." >>

\* Mutant: the fallback returns the path with its extension.
asc_get_related_stem_keeps_ext(path) ==
    LET name == splitext(path).name
        ext == splitext(path).ext
        hits == {i \in DOMAIN export_suffixes :
                    endswith(name, "_" \o export_suffixes[i])}
        first == CHOOSE i \in hits : \A j \in hits : i <= j
    IN  IF hits # {}
        THEN [stem |-> replace(name, "_" \o export_suffixes[first], ""),
              printed |-> <<>>]
        ELSE IF ext = ".img" THEN [stem |-> path, printed |-> <<>>]
        ELSE [stem |-> path, printed |-> stem_warning(path)]

\* _asc_get_related_stem(path): what it returns and what it prints.
asc_get_related_stem(path) ==
    LET name == splitext(path).name
        ext == splitext(path).ext
        hits == {i \in DOMAIN export_suffixes :
                    endswith(name, "_" \o export_suffixes[i])}
        first == CHOOSE i \in hits : \A j \in hits : i <= j
    IN  IF hits # {}
        THEN [stem |-> replace(name, "_" \o export_suffixes[first], ""),
              printed |-> <<>>]
        ELSE IF ext = ".img" THEN [stem |-> name, printed |-> <<>>]
        ELSE [stem |-> name, printed |-> stem_warning(path)]

\* The paths of the model: a stem, with or without a kind after it, and an
\* extension.
Range(seq) == {seq[i] : i \in DOMAIN seq}

Stems == {"pos_0000", "run_a1", "d_t1/pos", "img"}
Exts == {".asc", ".img", "", Suffix}
StemPaths ==
    {x \o "_" \o k \o e :
        x \in Stems, k \in Range(export_suffixes) \cup Range(KeyOrder),
        e \in Exts}
    \cup {x \o e : x \in Stems, e \in Exts}

InitStem ==
    /\ pc = "stem"
    /\ \E p \in StemPaths : args = [path |-> p]
    /\ result = <<>>
    /\ log = <<>>
    /\ dataset = <<>>
    /\ thresholds = <<>>
    /\ pending = {}
    /\ combined_mask = NoGrid
    /\ new_dataset = <<>>
    /\ dry_run = FALSE
    /\ writable = TRUE
    /\ todo = <<>>
    /\ calls = <<>>
    /\ files = <<>>
    /\ locals = <<>>

\* result = _asc_get_related_stem(args.path)
asc_get_related_stem_call ==
    /\ pc = "stem"
    /\ result' = asc_get_related_stem(args.path).stem
    /\ log' = log \o asc_get_related_stem(args.path).printed
    /\ pc' = "stem_done"
    /\ UNCHANGED <<dataset, thresholds, pending, combined_mask, new_dataset,
                   dry_run, writable, todo, calls, files, args>>
    /\ UNCHANGED locals

NextStem == asc_get_related_stem_call

SpecStem == InitStem /\ [][NextStem]_vars

(***************************************************************************)
(* np.loadtxt and asc_load.  The text of a grid file is a function from    *)
(* <<line, position>> (both counted from 0) to the token at that place.    *)
(***************************************************************************)
\* A token that is not the text of a number.
BadToken == [k |-> "text", m |-> 0, e |-> 0]

Lines(text) == {p[1] : p \in DOMAIN text}
Columns(text, i) == Cardinality({p \in DOMAIN text : p[1] = i})

\* Whether np.loadtxt(fname) raises: no such file (OSError), a token that
\* is no number, or lines of different numbers of values (ValueError).
loadtxt_raises(fs, fname) ==
    \/ fname \notin DOMAIN fs
    \/ \E p \in DOMAIN fs[fname] : fs[fname][p].k = "text"
    \/ \E i, j \in Lines(fs[fname]) :
           Columns(fs[fname], i) # Columns(fs[fname], j)

\* The array np.loadtxt returns for a text it accepts: dimensions of
\* length 1 are squeezed, so a single value gives a 0-d array, a single
\* line or a single column a 1-D array, and an empty text an empty 1-D
\* array.  The indices of an array are tuples of its ndim positions.
loadtxt(text) ==
    LET R == Cardinality(Lines(text))
        C == IF R = 0 THEN 0 ELSE Columns(text, 0)
    IN  IF R = 0 THEN [p \in {} |-> Zero]
        ELSE IF R = 1 /\ C = 1 THEN [p \in {<<>>} |-> ParseTok(text[<<0, 0>>])]
        ELSE IF R = 1
        THEN [p \in {<<j>> : j \in 0..(C - 1)} |-> ParseTok(text[<<0, p[1]>>])]
        ELSE IF C = 1
        THEN [p \in {<<i>> : i \in 0..(R - 1)} |-> ParseTok(text[<<p[1], 0>>])]
        ELSE [p \in DOMAIN text |-> ParseTok(text[p])]

\* asc_load(asciifile, verbose): what it prints, whether it raises and what
\* it returns.  After a failed np.loadtxt the except clause prints the
\* error and execution goes on: 'success.' is printed when verbose, and
\* `return data` raises UnboundLocalError, data never having been bound.
asc_load(fs, asciifile, verbose) ==
    LET failed == loadtxt_raises(fs, asciifile)
    IN  [raised |-> failed,
         data |-> IF failed THEN NoGrid ELSE loadtxt(fs[asciifile]),
         printed |->
             (IF verbose THEN <<"Loading " \o asciifile \o " ... ">> ELSE <<>>)
             \o (IF failed
                 THEN <<"loadtxt: couldn't load " \o asciifile>>
                 ELSE <<>>)
             \o (IF verbose THEN <<"success.">> ELSE <<>>)]

(***************************************************************************)
(* load_ascii_floats of asc-to-greyscale-tiff.py                           *)
(***************************************************************************)
\* The bits of a float32 after the leading one.
MantissaBits == 23

RECURSIVE Pow2(_)
Pow2(e) == IF e = 0 THEN 1 ELSE 2 * Pow2(e - 1)

\* floor(log2(n/d)) for n, d > 0.
RECURSIVE FloorLog2(_, _)
FloorLog2(n, d) ==
    IF n >= 2 * d THEN 1 + FloorLog2(n, 2 * d)
    ELSE IF n < d THEN FloorLog2(2 * n, d) - 1
    ELSE 0

\* np.float32(v): v rounded to 24 significant bits, ties to even (for the
\* normal range of float32).
astype_float32(v) ==
    IF v.k # "num" \/ v.n = 0 THEN v
    ELSE LET a == Abs(v.n)
             s == MantissaBits - FloorLog2(a, v.d)
         IN  IF s >= 0
             THEN Num(Sign(v) * RoundHalfEven(a * Pow2(s), v.d), Pow2(s))
             ELSE Whole(Sign(v) * RoundHalfEven(a, v.d * Pow2(-s)) * Pow2(-s))

\* arr.ndim: the length of the indices of arr (1 for the empty array that
\* np.loadtxt returns for an empty text).
ndim(arr) ==
    IF DOMAIN arr = {} THEN 1 ELSE Len(CHOOSE p \in DOMAIN arr : TRUE)

\* arr.shape of an array of two dimensions.
shape2(arr) ==
    << Cardinality({p[1] : p \in DOMAIN arr}),
       Cardinality({p[2] : p \in DOMAIN arr}) >>

\* arr.reshape(shape) of a 1-D array: row-major.
reshape1(arr, shape) ==
    [p \in Index(shape[1], shape[2]) |-> arr[<<p[1] * shape[2] + p[2]>>]]

\* Mutant: a matrix is returned whatever its shape is.
load_ascii_floats_any_matrix(fs, path, shape, verbose) ==
    IF loadtxt_raises(fs, path)
    THEN [raised |-> "RuntimeError", arr |-> NoGrid]
    ELSE LET arr == loadtxt(fs[path])
         IN  IF ndim(arr) = 1
             THEN IF size(arr) # shape[1] * shape[2]
                  THEN [raised |-> "ValueError", arr |-> NoGrid]
                  ELSE [raised |-> "",
                        arr |-> [p \in Index(shape[1], shape[2]) |->
                                    astype_float32(reshape1(arr, shape)[p])]]
             ELSE IF ndim(arr) = 2
             THEN [raised |-> "",
                   arr |-> [p \in DOMAIN arr |-> astype_float32(arr[p])]]
             ELSE [raised |-> "ValueError", arr |-> NoGrid]

\* load_ascii_floats(path, shape, verbose): the exception it raises ("" for
\* none) and the array it returns.
load_ascii_floats(fs, path, shape, verbose) ==
    IF loadtxt_raises(fs, path)
    THEN [raised |-> "RuntimeError", arr |-> NoGrid]
    ELSE LET arr == loadtxt(fs[path])
         IN  IF ndim(arr) = 1
             THEN IF size(arr) # shape[1] * shape[2]
                  THEN [raised |-> "ValueError", arr |-> NoGrid]
                  ELSE [raised |-> "",
                        arr |-> [p \in Index(shape[1], shape[2]) |->
                                    astype_float32(reshape1(arr, shape)[p])]]
             ELSE IF ndim(arr) = 2
             THEN IF shape2(arr) # shape
                  THEN [raised |-> "ValueError", arr |-> NoGrid]
                  ELSE [raised |-> "",
                        arr |-> [p \in DOMAIN arr |-> astype_float32(arr[p])]]
             ELSE [raised |-> "ValueError", arr |-> NoGrid]

\* str(n) for a number of one digit, and str(shape).
Digit(n) == SubSeq("0123456789", n + 1, n + 1)
shape_str(shape) == "(" \o Digit(shape[1]) \o ", " \o Digit(shape[2]) \o ")"

\* What load_ascii_floats prints: 'success.' only after np.loadtxt returned.
load_ascii_floats_printed(fs, path, shape, verbose) ==
    IF ~verbose THEN <<>>
    ELSE <<"Loading " \o path \o " with shape " \o shape_str(shape) \o " ... ">>
         \o (IF loadtxt_raises(fs, path) THEN <<>> ELSE <<"success.">>)

(***************************************************************************)
(* The grid codec on its own: asc_export of a grid followed by asc_load of *)
(* the file, asc_load of any text, and load_ascii_floats of any text.      *)
(***************************************************************************)
\* The largest number of tokens of a text of the model.
MaxCount == 4

RECURSIVE SumSeq(_)
SumSeq(q) == IF q = <<>> THEN 0 ELSE Head(q) + SumSeq(Tail(q))

\* The numbers of values of the lines of a text: any lines, of one length
\* or not, of at most MaxCount values in all.
LineLengths ==
    {ls \in UNION {[1..r -> 1..MaxCount] : r \in 0..MaxCount} :
        SumSeq(ls) <= MaxCount}

CodecTokens == {Dec(1, 0), Dec(1, -1), BadToken}

CodecTexts ==
    UNION {[{p \in (0..(Len(ls) - 1)) \X (0..(MaxCount - 1)) :
                p[2] < ls[p[1] + 1]} -> CodecTokens] : ls \in LineLengths}

\* The shapes load_ascii_floats is asked for.
CodecShapes ==
    {sh \in (1..MaxCount) \X (1..MaxCount) : sh[1] * sh[2] <= MaxCount}

\* The grids asc_export is given.
CodecValues == {Num(2, 3), Whole(-1), Whole(1234567), NaN}
CodecGrids == [Index(2, 2) -> CodecValues]

CodecPath == "pos_0000_a1.asc"

InitCodec ==
    /\ \/ /\ pc = "asc_export"
          /\ \E g \in CodecGrids, v \in BOOLEAN, d \in BOOLEAN :
                 args = [asc_filepath |-> CodecPath, matrix |-> g,
                         verbose |-> v, dry_run |-> d, asciifile |-> CodecPath]
          /\ files = <<>>
          /\ writable \in BOOLEAN
       \/ /\ pc = "asc_load"
          /\ \E v \in BOOLEAN : args = [asciifile |-> CodecPath, verbose |-> v]
          /\ files \in {<<>>} \cup {CodecPath :> t : t \in CodecTexts}
          /\ writable = TRUE
       \/ /\ pc = "load_ascii_floats"
          /\ \E v \in BOOLEAN, sh \in CodecShapes :
                 args = [path |-> CodecPath, shape |-> sh, verbose |-> v]
          /\ files \in {<<>>} \cup {CodecPath :> t : t \in CodecTexts}
          /\ writable = TRUE
    /\ result = <<>>
    /\ log = <<>>
    /\ dataset = <<>>
    /\ thresholds = <<>>
    /\ pending = {}
    /\ combined_mask = NoGrid
    /\ new_dataset = <<>>
    /\ dry_run = FALSE
    /\ todo = <<>>
    /\ calls = <<>>
    /\ locals = <<>>

\* asc_export(args.asc_filepath, args.matrix, args.verbose, args.dry_run)
asc_export_call ==
    /\ pc = "asc_export"
    /\ files' = asc_export(files, args.asc_filepath, args.matrix,
                           args.dry_run, writable)
    /\ pc' = "asc_load"
    /\ UNCHANGED <<dataset, thresholds, pending, combined_mask, new_dataset,
                   dry_run, writable, todo, calls, args, result, log>>
    /\ UNCHANGED locals

\* result = asc_load(args.asciifile, args.verbose)
asc_load_call ==
    /\ pc = "asc_load"
    /\ LET r == asc_load(files, args.asciifile, args.verbose)
       IN  /\ log' = log \o r.printed
           /\ result' = r.data
           /\ pc' = IF r.raised THEN "error" ELSE "asc_loaded"
    /\ UNCHANGED <<dataset, thresholds, pending, combined_mask, new_dataset,
                   dry_run, writable, todo, calls, files, args>>
    /\ UNCHANGED locals

\* result = load_ascii_floats(args.path, args.shape, args.verbose)
load_ascii_floats_call ==
    /\ pc = "load_ascii_floats"
    /\ LET r == load_ascii_floats(files, args.path, args.shape, args.verbose)
       IN  /\ result' = r.arr
           /\ pc' = IF r.raised # "" THEN "error" ELSE "floats_loaded"
    /\ log' = log \o load_ascii_floats_printed(files, args.path, args.shape,
                                                args.verbose)
    /\ UNCHANGED <<dataset, thresholds, pending, combined_mask, new_dataset,
                   dry_run, writable, todo, calls, files, args>>
    /\ UNCHANGED locals

NextCodec ==
    \/ asc_export_call
    \/ asc_load_call
    \/ load_ascii_floats_call

SpecCodec == InitCodec /\ [][NextCodec]_vars

(***************************************************************************)
(* asc_load_all_related and the run of __main__                            *)
(***************************************************************************)
\* os.path.isfile(path)
isfile(fs, path) == path \in DOMAIN fs

\* dataset.pop(key, None)
pop(d, key) == [k \in DOMAIN d \ {key} |-> d[k]]

\* Mutant: every kind is loaded, whether its file exists or not.
asc_load_all_related_step_no_isfile(ds, fs, name, kind, verbose) ==
    LET r == asc_load(fs, name \o "_" \o kind \o ".asc", verbose)
    IN  [raised |-> r.raised,
         dataset |-> IF r.raised THEN ds ELSE (kind :> r.data) @@ ds,
         printed |-> r.printed]

\* One pass of the loop of asc_load_all_related, for the suffix `kind`.
asc_load_all_related_step(ds, fs, name, kind, verbose) ==
    IF isfile(fs, name \o "_" \o kind \o ".asc")
    THEN LET r == asc_load(fs, name \o "_" \o kind \o ".asc", verbose)
         IN  [raised |-> r.raised,
              dataset |-> IF r.raised THEN ds ELSE (kind :> r.data) @@ ds,
              printed |-> r.printed]
    ELSE [raised |-> FALSE, dataset |-> ds, printed |-> <<>>]

\* The file sets of the model.  Every file of a set is absent or holds one
\* value throughout, in 2 lines of 3 values or in 3 lines of 2 values; the
\* photons file may also hold a token that is no number.
DiskStem == "pos_0000"
DiskPath(kind) == DiskStem \o "_" \o kind \o ".asc"
DiskKinds == {"a1", "a2", "chi", "photons", "shift", "statistic_all"}
DiskToken(kind) ==
    CASE kind = "a1" -> Dec(2, 0)
      [] kind = "photons" -> Dec(1, 3)
      [] kind = "shift" -> Dec(0, 0)
      [] OTHER -> Dec(1, 0)
DiskForms(kind) ==
    CASE kind \in {"a2", "shift"} -> {"absent", "2x3", "3x2"}
      [] kind = "photons" -> {"absent", "2x3", "text"}
      [] OTHER -> {"absent", "2x3"}
DiskText(kind, form) ==
    CASE form = "3x2" -> [p \in Index(3, 2) |-> DiskToken(kind)]
      [] form = "text" ->
             [p \in Index(2, 3) |->
                 IF p = <<1, 2>> THEN BadToken ELSE DiskToken(kind)]
      [] OTHER -> [p \in Index(2, 3) |-> DiskToken(kind)]
Disks ==
    {[f \in {DiskPath(kind) : kind \in {k \in DiskKinds : c[k] # "absent"}} |->
         LET kind == CHOOSE k \in DiskKinds : DiskPath(k) = f
         IN  DiskText(kind, c[kind])] :
     c \in {c \in [DiskKinds -> {"absent", "2x3", "3x2", "text"}] :
               \A k \in DiskKinds : c[k] \in DiskForms(k)}}

InitMain ==
    /\ pc = "main"
    /\ \E v \in BOOLEAN :
        args = [input |-> DiskPath("a1"), verbose |-> v, bh_bin |-> 1]
    /\ files \in Disks
    /\ thresholds = main_thresholds
    /\ dataset = <<>>
    /\ result = <<>>
    /\ log = <<>>
    /\ pending = {}
    /\ combined_mask = NoGrid
    /\ new_dataset = <<>>
    /\ dry_run = FALSE
    /\ writable = TRUE
    /\ todo = <<>>
    /\ calls = <<>>
    /\ locals = <<>>

\* dataset = asc_load_all_related(args.input, args.verbose): the lines
\* before the loop.
asc_load_all_related_begin ==
    /\ pc = "main"
    /\ log' = log \o asc_get_related_stem(args.input).printed
    /\ dataset' = <<>>
    /\ todo' = import_suffixes
    /\ pc' = "load"
    /\ UNCHANGED <<thresholds, pending, combined_mask, new_dataset, dry_run,
                   writable, calls, files, args, result>>
    /\ UNCHANGED locals

\* for s in import_suffixes: if os.path.isfile(name + fn_s):
\* dataset[s] = asc_load(name + fn_s, verbose)
asc_load_all_related_iter ==
    /\ pc = "load"
    /\ todo # <<>>
    /\ LET r == asc_load_all_related_step(
                    dataset, files, asc_get_related_stem(args.input).stem,
                    Head(todo), args.verbose)
       IN  /\ log' = log \o r.printed
           /\ dataset' = r.dataset
           /\ pc' = IF r.raised THEN "error" ELSE "load"
           /\ todo' = IF r.raised THEN todo ELSE Tail(todo)
    /\ UNCHANGED <<thresholds, pending, combined_mask, new_dataset, dry_run,
                   writable, calls, files, args, result>>
    /\ UNCHANGED locals

\* dataset.pop('statistic_all', None); return dataset
asc_load_all_related_return ==
    /\ pc = "load"
    /\ todo = <<>>
    /\ dataset' = pop(dataset, "statistic_all")
    /\ pc' = "bin"
    /\ UNCHANGED <<thresholds, pending, combined_mask, new_dataset, dry_run,
                   writable, todo, calls, files, args, result, log>>
    /\ UNCHANGED locals

NextMain ==
    \/ asc_load_all_related_begin
    \/ asc_load_all_related_iter
    \/ asc_load_all_related_return
    \/ add_binned_photons_call
    \/ threshold_reasonably_begin
    \/ threshold_reasonably_iter
    \/ threshold_reasonably_return
    \/ asc_export_mas_begin
    \/ asc_export_mas_iter
    \/ asc_export_mas_return

SpecMain == InitMain /\ [][NextMain]_vars

(***************************************************************************)
(* The parallel histogram accumulation of histogram-dir.py.  The directory *)
(* is flat; a matched file is either unreadable (opening it raises) or     *)
(* holds the values np.fromfile returns, whole numbers here.  A histogram  *)
(* of n bins is the bag of the bin numbers, from 1 to n, of the values it  *)
(* counted: the count of a bin is the number of copies of its number, 0    *)
(* for a bin not in the bag, and the bin-wise sum of two histograms is the *)
(* sum of their bags.  The edges array np.histogram returns with it is     *)
(* linspace(lo, hi, n + 1), kept as the triple <<lo, hi, n>>.  What a      *)
(* worker returns is None or an array.                                     *)
(***************************************************************************)
None == [k |-> "None"]
array(h) == [k |-> "array", h |-> h]

\* np.histogram(data, range=[lo, hi], bins=n)[0]: n equal bins over
\* [lo, hi], each closed on the left and the last one closed on the right
\* too; values outside the range are not counted.
histogram(data, lo, hi, n) ==
    LET bin(x) == IF x = hi THEN n ELSE ((x - lo) * n) \div (hi - lo) + 1
        counted == {i \in DOMAIN data : data[i] >= lo /\ data[i] <= hi}
    IN  [k \in {bin(data[i]) : i \in counted} |->
            Cardinality({i \in counted : bin(data[i]) = k})]

\* int(round((maxval - minval) / binwidth + 1, 0)) of flimhist and
\* ratiohist, for the ranges the program passes, whose quotient is exact to
\* the precision the model keeps
bin_count(minval, maxval, binwidth_num, binwidth_den) ==
    LET twice == (2 * (maxval - minval) * binwidth_den) \div binwidth_num
    IN  (twice + 1) \div 2 + 1

\* flimhist(asciifile, minval, maxval) with the default binwidth of 10
flimhist(fs, asciifile, minval, maxval) ==
    LET bins == bin_count(minval, maxval, 10, 1)
    IN  [raised |-> ~fs[asciifile].readable,
         h      |-> histogram(fs[asciifile].data, minval, maxval, bins),
         b      |-> <<minval, maxval, bins>>,
         binwidth |-> Num(10, 1)]

\* np.log10 in units of 10^-3, on the positive values the model draws:
\* the powers of ten, and 4000 to three decimals
LogScale == 1000
log10(x) ==
    IF x = 4000 THEN 3602
    ELSE LogScale * (CHOOSE e \in 0..9 : Pow10(e) = x)

\* ratiohist(asciifile, minval, maxval) with the default binwidth of 0.01.
\* The program passes minval = 0, which becomes log10(1e-16), and a
\* positive maxval.  log10 of a value that is not positive is -inf or nan,
\* which np.histogram leaves out as it leaves out every value outside the
\* range.  The edges and the logs are in units of 10^-3.
ratiohist(fs, asciifile, minval, maxval) ==
    LET lo   == IF minval > 0 THEN log10(minval) ELSE -16 * LogScale
        hi   == IF maxval > 0 THEN log10(maxval) ELSE -16 * LogScale
        bins == bin_count(lo, hi, LogScale, 100)
        pos  == SelectSeq(fs[asciifile].data, LAMBDA x : x > 0)
        data == [i \in DOMAIN pos |-> log10(pos[i])]
    IN  [raised |-> ~fs[asciifile].readable,
         h      |-> histogram(data, lo, hi, bins),
         b      |-> <<lo, hi, bins>>,
         binwidth |-> Num(1, 100)]

\* files_non_recursively(dirpath, suffixes) and, the directory being flat,
\* files_recursively(dirpath, suffixes): the entries ending with the suffix,
\* in the order the directory lists them
files_non_recursively(listing, suffixes) ==
    SelectSeq(listing, LAMBDA file : endswith(file, suffixes))

\* process_file(file) and process_file_log(file): the histogram of the file,
\* or None, with the error printed, when reading it raises
process_file(fs, file, log_mode) ==
    LET r == IF log_mode THEN ratiohist(fs, file, 0, 4000)
             ELSE flimhist(fs, file, 0, 4000)
    IN  IF r.raised
        THEN [value |-> None, printed |-> <<"Error processing " \o file>>]
        ELSE [value |-> array(r.h), printed |-> <<>>]

\* mutation: the loop keeps the last result instead of adding it
accumulate_keep_last(total_hist, value) == value

\* One pass of the loop over as_completed(futures), lines 239-243:
\* total_hist = result the first time, total_hist += result afterwards
accumulate(total_hist, value) ==
    IF total_hist.k = "None" THEN value
    ELSE array(total_hist.h (+) value.h)

MaxFiles == 3
HistSuffix == "_t1.asc"
HistName(i) == "d/s" \o Digit(i) \o HistSuffix
HistData == {<<>>, <<1, 10>>, <<10, 4000, 10000>>, <<0, -1, 1000>>}
HistFiles == [readable : BOOLEAN, data : HistData]
Listings ==
    {[i \in 1..(n + 1) |-> IF i = 1 THEN "d/notes.txt" ELSE HistName(i - 1)] :
        n \in 0..MaxFiles}

InitHist ==
    /\ pc = "hist"
    /\ \E listing \in Listings, recursive \in BOOLEAN, log_mode \in BOOLEAN :
        /\ args = [dirpath |-> listing, suffixes |-> HistSuffix,
                   recursive |-> recursive, log |-> log_mode]
        /\ \E fs \in [Range(listing) \ {"d/notes.txt"} -> HistFiles] :
            /\ \A f \in DOMAIN fs : ~fs[f].readable => fs[f].data = <<>>
            /\ files = fs
    /\ result = <<>>
    /\ log = <<>>
    /\ locals = <<>>
    /\ dataset = <<>>
    /\ thresholds = <<>>
    /\ pending = {}
    /\ combined_mask = NoGrid
    /\ new_dataset = <<>>
    /\ dry_run = FALSE
    /\ writable = TRUE
    /\ todo = <<>>
    /\ calls = <<>>

\* accumulatehists_parallel, lines 217-237: list the files, read the first
\* one for the edges and the width, and submit one worker per file.  An
\* empty list raises ValueError, and the read of the first file is outside
\* any try.
accumulatehists_parallel_begin ==
    /\ pc = "hist"
    /\ LET matched == files_non_recursively(args.dirpath, args.suffixes)
           first   == IF args.log THEN ratiohist(files, matched[1], 0, 4000)
                      ELSE flimhist(files, matched[1], 0, 4000)
           said    == IF args.recursive THEN "We are recursive"
                      ELSE "We are not recursive"
       IN  /\ log' = log \o <<said>>
           /\ IF Len(matched) = 0 \/ first.raised
              THEN /\ pc' = "error"
                   /\ UNCHANGED locals
              ELSE /\ pc' = "pool"
                   /\ locals' = [files |-> matched,
                                 bins |-> first.b,
                                 width |-> first.binwidth,
                                 total_hist |-> None,
                                 futures |-> [f \in Range(matched) |->
                                                 [state |-> "running",
                                                  value |-> None]]]
    /\ UNCHANGED <<dataset, thresholds, pending, combined_mask, new_dataset,
                   dry_run, writable, todo, calls, files, args, result>>

\* A worker finishes: the future of one file holds process_file's value.
future_done ==
    /\ pc = "pool"
    /\ \E f \in DOMAIN locals.futures :
        /\ locals.futures[f].state = "running"
        /\ LET r == process_file(files, f, args.log)
           IN  /\ locals' = [locals EXCEPT !.futures[f] =
                                [state |-> "finished", value |-> r.value]]
               /\ log' = log \o r.printed
    /\ UNCHANGED <<pc, dataset, thresholds, pending, combined_mask,
                   new_dataset, dry_run, writable, todo, calls, files, args,
                   result>>

\* as_completed(futures) yields a finished future, each one once, and the
\* loop adds its result when it is not None, lines 238-244.
as_completed_iter ==
    /\ pc = "pool"
    /\ \E f \in DOMAIN locals.futures :
        /\ locals.futures[f].state = "finished"
        /\ LET value == locals.futures[f].value
           IN  IF value.k # "None"
               THEN /\ locals' = [locals EXCEPT
                            !.futures[f].state = "yielded",
                            !.total_hist = accumulate(@, value)]
                    /\ log' = log \o <<".">>
               ELSE /\ locals' = [locals EXCEPT
                            !.futures[f].state = "yielded"]
                    /\ UNCHANGED log
    /\ UNCHANGED <<pc, dataset, thresholds, pending, combined_mask,
                   new_dataset, dry_run, writable, todo, calls, files, args,
                   result>>

\* Every future has been yielded: lines 246-248
accumulatehists_parallel_return ==
    /\ pc = "pool"
    /\ \A f \in DOMAIN locals.futures : locals.futures[f].state = "yielded"
    /\ log' = log \o <<":">>
    /\ result' = <<locals.total_hist, locals.bins, locals.width>>
    /\ pc' = "hist_done"
    /\ UNCHANGED <<dataset, thresholds, pending, combined_mask, new_dataset,
                   dry_run, writable, todo, calls, files, args, locals>>

NextHist ==
    \/ accumulatehists_parallel_begin
    \/ future_done
    \/ as_completed_iter
    \/ accumulatehists_parallel_return

SpecHist == InitHist /\ [][NextHist]_vars

(***************************************************************************)
(* The conversion loop of asc-to-greyscale-tiff.py's main.  The input      *)
(* paths are those resolve_inputs returned, an output directory and an     *)
(* output file are given, and a TIFF file is kept as the float32 grid      *)
(* written to it.  Of an exception only the kind is kept, so the line      *)
(* printed for it ends after the path.                                     *)
(***************************************************************************)
\* os.path.basename(p)
basename(p) == SubSeq(p, rfind(p, "/") + 1, Len(p))

\* s.partition(".")[0]: the part of s before its first dot, s without one
partition(s) ==
    LET at == {i \in 1..Len(s) : SubSeq(s, i, i) = "."}
    IN  IF at = {} THEN s
        ELSE SubSeq(s, 1, (CHOOSE i \in at : \A j \in at : i <= j) - 1)

\* img * args.multiplyby, of a float32 array and a Python float
multiply(img, factor) ==
    [p \in DOMAIN img |-> astype_float32(Mul(img[p], factor))]

\* save_tiff_float32(out_path, img, compression, dry_run, verbose): the
\* file written, the lines printed and whether tiff.imwrite raised, which
\* the function does not catch
save_tiff_float32(out_path, img, dry, verbose, can_write) ==
    IF dry
    THEN [raised |-> FALSE, written |-> <<>>,
          printed |-> IF verbose
                      THEN <<"Would save " \o shape_str(shape2(img))
                             \o " image to " \o out_path \o ".">>
                      ELSE <<>>]
    ELSE LET saving == IF verbose
                       THEN <<"Saving new " \o shape_str(shape2(img))
                              \o " image to " \o out_path \o " ... ">>
                       ELSE <<>>
         IN  IF can_write
             THEN [raised |-> FALSE, written |-> out_path :> img,
                   printed |-> saving \o (IF verbose THEN <<"success.">>
                                          ELSE <<>>)]
             ELSE [raised |-> TRUE, written |-> <<>>, printed |-> saving]

\* The body of the try of both loops of main, lines 168-178 and 191-196,
\* for the path p and the output path out_path: whether it raised, the file
\* written and the lines printed
convert(fs, p, out_path, a, can_write, many) ==
    LET r   == load_ascii_floats(fs, p, a.shape, a.verbose)
        img == IF a.multiplyby.k # "None" THEN multiply(r.arr, a.multiplyby)
               ELSE r.arr
        s   == save_tiff_float32(out_path, img, a.dry_run, a.verbose,
                                 can_write)
        loading == load_ascii_floats_printed(fs, p, a.shape, a.verbose)
    IN  IF r.raised # ""
        THEN [raised |-> TRUE, written |-> <<>>, printed |-> loading]
        ELSE IF s.raised
        THEN [raised |-> TRUE, written |-> <<>>,
              printed |-> loading \o s.printed]
        ELSE [raised |-> FALSE, written |-> s.written,
              printed |-> loading \o s.printed
                  \o (IF many /\ ~a.verbose THEN <<".">> ELSE <<>>)
                  \o (IF a.verbose
                      THEN <<"[OK] " \o p \o " -> " \o out_path
                             \o " (float32, " \o shape_str(a.shape) \o ")">>
                      ELSE <<>>)]

\* mutation: every pass counts as converted
tally_ok_only(counts, raised) == [counts EXCEPT !.ok = @ + 1]

\* ok += 1 at the end of the try, failed += 1 in the except clause
tally(counts, raised) ==
    IF raised THEN [counts EXCEPT !.failed = @ + 1]
    ELSE [counts EXCEPT !.ok = @ + 1]

MaxPaths == 3
TiffShape == <<1, 2>>
TiffTexts ==
    {(<<0, 0>> :> Dec(1, 0)) @@ (<<0, 1>> :> Dec(5, -1)),
     (<<0, 0>> :> Dec(1, 0)),
     (<<0, 0>> :> Dec(1, 0)) @@ (<<0, 1>> :> BadToken)}
TiffPath(i) == "in/s" \o Digit(i) \o ".th.asc"
TiffPaths == {[i \in 1..n |-> TiffPath(i)] : n \in 0..MaxPaths}

InitTiff ==
    /\ pc = "main_tiff"
    /\ \E paths \in TiffPaths, verbose \in BOOLEAN, dry \in BOOLEAN,
          fail_fast \in BOOLEAN, factor \in {None, Whole(2)} :
        /\ args = [paths |-> paths, shape |-> TiffShape, outdir |-> "out",
                   outfile |-> "out.tif", outsuffix |-> "_f32.tif",
                   multiplyby |-> factor, verbose |-> verbose,
                   dry_run |-> dry, fail_fast |-> fail_fast]
        /\ files \in [Range(paths) -> TiffTexts]
    /\ writable \in BOOLEAN
    /\ result = <<>>
    /\ log = <<>>
    /\ locals = <<>>
    /\ dataset = <<>>
    /\ thresholds = <<>>
    /\ pending = {}
    /\ combined_mask = NoGrid
    /\ new_dataset = <<>>
    /\ dry_run = FALSE
    /\ todo = <<>>
    /\ calls = <<>>

\* main, lines 159-165 and 188: no path is an error; several paths start
\* the counting loop, a single one the loop without counters
main_tiff_begin ==
    /\ pc = "main_tiff"
    /\ IF Len(args.paths) = 0
       THEN /\ pc' = "error"
            /\ UNCHANGED <<todo, locals>>
       ELSE IF Len(args.paths) > 1
       THEN /\ pc' = "convert"
            /\ todo' = args.paths
            /\ locals' = [ok |-> 0, failed |-> 0]
       ELSE /\ pc' = "convert_single"
            /\ todo' = args.paths
            /\ UNCHANGED locals
    /\ UNCHANGED <<dataset, thresholds, pending, combined_mask, new_dataset,
                   dry_run, writable, calls, files, args, result, log>>

\* One pass of the loop of lines 166-185 over the next path
main_tiff_iter ==
    /\ pc = "convert"
    /\ todo # <<>>
    /\ LET p == Head(todo)
           out_path == args.outdir \o "/" \o partition(basename(p))
                           \o args.outsuffix
           c == convert(files, p, out_path, args, writable, TRUE)
       IN  /\ calls' = Append(calls, p)
           /\ todo' = Tail(todo)
           /\ files' = c.written @@ files
           /\ locals' = tally(locals, c.raised)
           /\ IF c.raised
              THEN /\ log' = log \o c.printed \o <<"[ERR] " \o p>>
                   /\ pc' = IF args.fail_fast THEN "error" ELSE pc
              ELSE /\ log' = log \o c.printed
                   /\ pc' = pc
    /\ UNCHANGED <<dataset, thresholds, pending, combined_mask, new_dataset,
                   dry_run, writable, args, result>>

\* The loop is over: line 187
main_tiff_done ==
    /\ pc = "convert"
    /\ todo = <<>>
    /\ log' = log \o <<"Done. Converted: " \o Digit(locals.ok)
                       \o ", Failed: " \o Digit(locals.failed)
                       \o ", Outdir: " \o args.outdir>>
    /\ pc' = "converted"
    /\ UNCHANGED <<dataset, thresholds, pending, combined_mask, new_dataset,
                   dry_run, writable, todo, calls, files, args, result,
                   locals>>

\* The loop over a single path, lines 189-198
main_tiff_single ==
    /\ pc = "convert_single"
    /\ LET p == Head(todo)
           c == convert(files, p, args.outfile, args, writable, FALSE)
       IN  /\ calls' = Append(calls, p)
           /\ todo' = Tail(todo)
           /\ files' = c.written @@ files
           /\ IF c.raised
              THEN /\ log' = log \o c.printed \o <<"[ERR] " \o p>>
                   /\ pc' = IF args.fail_fast THEN "error" ELSE "converted"
              ELSE /\ log' = log \o c.printed
                   /\ pc' = "converted"
    /\ UNCHANGED <<dataset, thresholds, pending, combined_mask, new_dataset,
                   dry_run, writable, args, result, locals>>

NextTiff ==
    \/ main_tiff_begin
    \/ main_tiff_iter
    \/ main_tiff_done
    \/ main_tiff_single

SpecTiff == InitTiff /\ [][NextTiff]_vars

(***************************************************************************)
(* The file groupings of stats-to-boxplot.py: parse_grouping turns a       *)
(* grouping string into patterns and a group name, assign_group gives a    *)
(* file name the group of the first pattern its name starts with.  Of the  *)
(* line assign_group prints, the lists after the pattern are left out.     *)
(***************************************************************************)
\* s.split(sep) for a character sep
RECURSIVE split(_, _)
split(s, sep) ==
    LET at == {i \in 1..Len(s) : SubSeq(s, i, i) = sep}
        first == CHOOSE i \in at : \A j \in at : i <= j
    IN  IF at = {} THEN <<s>>
        ELSE <<SubSeq(s, 1, first - 1)>>
             \o split(SubSeq(s, first + 1, Len(s)), sep)

\* s.strip() of the blanks around s
RECURSIVE strip(_)
strip(s) ==
    IF Len(s) > 0 /\ SubSeq(s, 1, 1) = " " THEN strip(SubSeq(s, 2, Len(s)))
    ELSE IF Len(s) > 0 /\ SubSeq(s, Len(s), Len(s)) = " "
    THEN strip(SubSeq(s, 1, Len(s) - 1))
    ELSE s

\* s.startswith(prefix)
startswith(s, prefix) ==
    Len(s) >= Len(prefix) /\ SubSeq(s, 1, Len(prefix)) = prefix

\* The length of the longest run of digits of s that starts at position i,
\* which is what \d+ takes there
digit_run(s, i) ==
    LET stops == {j \in i..Len(s) :
                     \A d \in 0..9 : SubSeq(s, j, j) # Digit(d)}
    IN  IF stops = {} THEN Len(s) - i + 1
        ELSE (CHOOSE j \in stops : \A l \in stops : j <= l) - i

\* int(s) of a string of digits, and str(n) of a natural number
RECURSIVE int(_)
int(s) ==
    IF Len(s) = 0 THEN 0
    ELSE 10 * int(SubSeq(s, 1, Len(s) - 1))
         + (CHOOSE d \in 0..9 : Digit(d) = SubSeq(s, Len(s), Len(s)))

RECURSIVE str(_)
str(n) == IF n < 10 THEN Digit(n) ELSE str(n \div 10) \o Digit(n % 10)

\* re.match(r's(\d+)-s(\d+)', patterns_part): whether the beginning of the
\* string matches, and the two numbers
range_match(patterns_part) ==
    LET n1 == digit_run(patterns_part, 2)
        at == 2 + n1
        n2 == digit_run(patterns_part, at + 2)
    IN  IF /\ startswith(patterns_part, "s")
           /\ n1 >= 1
           /\ at + 1 <= Len(patterns_part)
           /\ SubSeq(patterns_part, at, at + 1) = "-s"
           /\ n2 >= 1
        THEN [matched |-> TRUE,
              start |-> int(SubSeq(patterns_part, 2, at - 1)),
              end |-> int(SubSeq(patterns_part, at + 2, at + 1 + n2))]
        ELSE [matched |-> FALSE, start |-> 0, end |-> 0]

\* parse_grouping(grouping_str): the patterns and the group name, or the
\* ValueError of a string without exactly one colon
parse_grouping(grouping_str) ==
    LET parts == split(grouping_str, ":")
        m == range_match(parts[1])
        count == IF m.end >= m.start THEN m.end - m.start + 1 ELSE 0
    IN  IF Len(parts) # 2
        THEN [raised |-> TRUE, patterns |-> <<>>, group_name |-> ""]
        ELSE [raised |-> FALSE,
              patterns |->
                  IF m.matched
                  THEN [i \in 1..count |-> "s" \o str(m.start + i - 1) \o "-"]
                       \o [i \in 1..count |-> "s" \o str(m.start + i - 1)]
                  ELSE [i \in DOMAIN split(parts[1], ",") |->
                           strip(split(parts[1], ",")[i])],
              group_name |-> parts[2]]

\* assign_group(filename, groupings): the group returned and the line
\* printed
assign_group(filename, groupings) ==
    LET name == splitext(filename).name
        matching(g) == {i \in DOMAIN groupings[g].patterns :
                           startswith(name, groupings[g].patterns[i])}
        hits == {g \in DOMAIN groupings : matching(g) # {}}
        g == CHOOSE h \in hits : \A l \in hits : h <= l
        i == CHOOSE h \in matching(g) : \A l \in matching(g) : h <= l
    IN  IF hits = {}
        THEN [group |-> "Other",
              printed |-> <<"Assigned other for " \o name \o ".">>]
        ELSE [group |-> groupings[g].group_name,
              printed |-> <<"Assigned group " \o groupings[g].group_name
                            \o " to " \o name \o " because it started with "
                            \o groupings[g].patterns[i] \o ".">>]

MaxGroupings == 2
GroupingStrings ==
    {"s4-s5:CTRL", "s42-s43:1KO", "s5-s4:2KO", "s6-, s42-:KO", "s4-s5"}
GroupFilenames ==
    {"s4-a.csv", "s5.csv", "s42-a.csv", "s43.csv", "s6-b.csv", "s7-a.csv",
     "s50-a.csv", "t4-a.csv"}

InitGroup ==
    /\ pc = "groupings"
    /\ \E n \in 1..MaxGroupings :
        \E gs \in [1..n -> GroupingStrings], f \in GroupFilenames :
            args = [groupings |-> gs, filename |-> f]
    /\ new_dataset = <<>>
    /\ dataset = <<>>
    /\ thresholds = <<>>
    /\ pending = {}
    /\ combined_mask = NoGrid
    /\ dry_run = FALSE
    /\ writable = TRUE
    /\ todo = <<>>
    /\ calls = <<>>
    /\ files = <<>>
    /\ result = <<>>
    /\ log = <<>>
    /\ locals = <<>>

\* groupings = [parse_grouping(g) for g in args.groupings], lines 235-240:
\* a ValueError is printed and the program exits
parse_groupings ==
    /\ pc = "groupings"
    /\ LET parsed == [i \in DOMAIN args.groupings |->
                         parse_grouping(args.groupings[i])]
       IN  IF \E i \in DOMAIN parsed : parsed[i].raised
           THEN /\ pc' = "error"
                /\ log' = log \o <<"Error parsing groupings">>
                /\ UNCHANGED locals
           ELSE /\ pc' = "assign"
                /\ locals' = [groupings |->
                                 [i \in DOMAIN parsed |->
                                     [patterns |-> parsed[i].patterns,
                                      group_name |-> parsed[i].group_name]]]
                /\ UNCHANGED log
    /\ UNCHANGED <<dataset, thresholds, pending, combined_mask, new_dataset,
                   dry_run, writable, todo, calls, files, args, result>>

\* result = assign_group(args.filename, groupings), line 83
assign_group_call ==
    /\ pc = "assign"
    /\ result' = assign_group(args.filename, locals.groupings).group
    /\ log' = log \o assign_group(args.filename, locals.groupings).printed
    /\ pc' = "assigned"
    /\ UNCHANGED <<dataset, thresholds, pending, combined_mask, new_dataset,
                   dry_run, writable, todo, calls, files, args, locals>>

NextGroup ==
    \/ parse_groupings
    \/ assign_group_call

SpecGroup == InitGroup /\ [][NextGroup]_vars

(***************************************************************************)
(* One dataset end to end: a1 = [[2, 0], [4, 8]], a2 = [[1, 5], [0, 2]],   *)
(* thresholded by entries of __main__'s specification that include a1 and  *)
(* a2, and exported.                                                       *)
(***************************************************************************)
Grid2x2(v00, v01, v10, v11) ==
    [p \in Index(2, 2) |->
        IF p = <<0, 0>> THEN v00 ELSE IF p = <<0, 1>> THEN v01
        ELSE IF p = <<1, 0>> THEN v10 ELSE v11]

E2EDataset ==
    ("a1" :> Grid2x2(Whole(2), Zero, Whole(4), Whole(8)))
    @@ ("a2" :> Grid2x2(Whole(1), Whole(5), Zero, Whole(2)))

InitE2E ==
    /\ pc = "start"
    /\ dataset = E2EDataset
    /\ \E ks \in SUBSET DOMAIN main_thresholds :
        /\ {"a1", "a2"} \subseteq ks
        /\ thresholds = [tkey \in ks |-> main_thresholds[tkey]]
    /\ pending = {}
    /\ combined_mask = NoGrid
    /\ new_dataset = <<>>
    /\ dry_run = FALSE
    /\ writable = TRUE
    /\ todo = <<>>
    /\ calls = <<>>
    /\ files = InitFiles
    /\ args = <<>>
    /\ result = <<>>
    /\ log = <<>>
    /\ locals = <<>>

SpecE2E == InitE2E /\ [][Next]_vars

(***************************************************************************)
(* Properties                                                              *)
(***************************************************************************)
MaskedPixels(mask) == {p \in DOMAIN mask : mask[p]}

\* The orders in which the entries of a dict of keys S can be visited.
Orders(S) ==
    {o \in [1..Cardinality(S) -> S] : \A i, j \in DOMAIN o : o[i] = o[j] => i = j}

\* The mask threshold_reasonably builds for ds under th along `order`.
MaskOf(ds, th, order) ==
    threshold_loop([p \in Pixels |-> FALSE], ds, th, order)

Without(th, key) == [j \in DOMAIN th \ {key} |-> th[j]]

Thresholded == pc \in {"thresholded", "export", "done"}

\* value < min or value > max for the entry of kind key at pixel p.
OutOfRange(key, p) ==
    \/ Gt(thresholds[key][1], dataset[key][p])
    \/ Gt(dataset[key][p], thresholds[key][2])

\* C1: the combined mask marks pixel p invalid if and only if a kind in both
\* the dataset and the specification has value < min or value > max at p (in
\* the loop: a kind among the entries visited so far).  The range is
\* inclusive, and with no kind of the specification in the dataset no pixel
\* is masked.
C1_MaskIffOutOfRange ==
    (pc = "loop" \/ Thresholded) =>
        /\ DOMAIN combined_mask = Pixels
        /\ \A p \in Pixels :
            combined_mask[p] <=>
                \E key \in (DOMAIN dataset) \cap (DOMAIN thresholds \ pending) :
                    OutOfRange(key, p)

\* A finished mask with a masked pixel and an unmasked pixel whose value is
\* the min or the max of its kind's range.
C1_Witness ==
    /\ pc = "thresholded"
    /\ \E p \in Pixels : combined_mask[p]
    /\ \E p \in Pixels, key \in (DOMAIN dataset) \cap (DOMAIN thresholds) :
        /\ ~combined_mask[p]
        /\ dataset[key][p] \in {thresholds[key][1], thresholds[key][2]}

\* C2: every order of iteration over the threshold entries yields the mask
\* the run built, at every pixel.
C2_OrderIndependent ==
    pc = "thresholded" =>
        \A order \in Orders(DOMAIN thresholds) :
            MaskOf(dataset, thresholds, order) = combined_mask

\* Two kinds with a range each that fail at different, non-empty sets of
\* pixels.
C2_Witness ==
    /\ pc = "thresholded"
    /\ \E k1, k2 \in (DOMAIN dataset) \cap (DOMAIN thresholds) :
        LET f1 == {p \in Pixels : OutOfRange(k1, p)}
            f2 == {p \in Pixels : OutOfRange(k2, p)}
        IN  f1 # {} /\ f2 # {} /\ f1 # f2

\* th2 has every entry of th, each with a range inside th's.
Stricter(th2, th) ==
    /\ DOMAIN th \subseteq DOMAIN th2
    /\ \A key \in DOMAIN th :
        Le(th[key][1], th2[key][1]) /\ Le(th2[key][2], th[key][2])

\* C3: under a specification with further entries or stricter ranges every
\* pixel masked by the run is masked too, so the number of masked pixels does
\* not decrease.
C3_Monotone ==
    pc = "thresholded" =>
        \A th2 \in ThresholdSpecs :
            Stricter(th2, thresholds) =>
                \A order \in Orders(DOMAIN th2) :
                    LET mask2 == MaskOf(dataset, th2, order)
                    IN  /\ MaskedPixels(combined_mask) \subseteq MaskedPixels(mask2)
                        /\ Cardinality(MaskedPixels(combined_mask))
                               <= Cardinality(MaskedPixels(mask2))

\* A stricter specification that masks strictly more pixels than the run's,
\* which masks some.
C3_Witness ==
    /\ pc = "thresholded"
    /\ MaskedPixels(combined_mask) # {}
    /\ \E th2 \in ThresholdSpecs :
        /\ Stricter(th2, thresholds)
        /\ \E key \in DOMAIN thresholds : th2[key] # thresholds[key]
        /\ Cardinality(MaskedPixels(MaskOf(dataset, th2, Keys(th2))))
               > Cardinality(MaskedPixels(combined_mask))

\* C4: an entry for a kind that is not in the dataset raises no error (the
\* run fails only on a dataset with no kind) and the mask is the mask of the
\* specification without that entry.
C4_MissingKindSkipped ==
    /\ pc = "error" => DOMAIN dataset = {}
    /\ pc = "thresholded" =>
        \A key \in DOMAIN thresholds \ DOMAIN dataset :
            \A order \in Orders(DOMAIN thresholds \ {key}) :
                combined_mask = MaskOf(dataset, Without(thresholds, key), order)

\* A finished run with an entry for a kind that is not in the dataset, a
\* masked pixel and an unmasked pixel.
C4_Witness ==
    /\ pc = "thresholded"
    /\ DOMAIN thresholds \ DOMAIN dataset # {}
    /\ MaskedPixels(combined_mask) \notin {{}, Pixels}

\* C5: every kind of the input dataset carries the combined mask in the
\* returned dataset, with or without an entry in the specification: a pixel
\* out of the range of one kind is invalid in every input kind.
C5_GlobalMask ==
    Thresholded =>
        /\ \A key \in DOMAIN dataset :
            /\ key \in DOMAIN new_dataset
            /\ new_dataset[key].mask = combined_mask
        /\ \A key \in (DOMAIN dataset) \cap (DOMAIN thresholds), p \in Pixels :
            OutOfRange(key, p) =>
                \A other \in DOMAIN dataset : new_dataset[other].mask[p]

\* A kind without an entry in the specification that is masked at a pixel and
\* not at another.
C5_Witness ==
    /\ pc = "thresholded"
    /\ \E key \in DOMAIN dataset \ DOMAIN thresholds :
        MaskedPixels(new_dataset[key].mask) \notin {{}, Pixels}

\* raw value <= 0
NonPositive(v) == (v.k = "num" /\ v.n <= 0) \/ v = NegInf

\* C6: the result of free_bound_ratio is invalid at pixel p if and only if p
\* is masked in m1, or masked in m2, or m1's raw value at p is <= 0, or m2's
\* raw value at p is <= 0.
C6_RatioMask ==
    pc = "ratio_done" =>
        LET m1 == new_dataset["a1"]
            m2 == new_dataset["a2"]
            r == new_dataset["ar"]
        IN  /\ DOMAIN r.mask = Pixels
            /\ \A p \in Pixels :
                r.mask[p] <=>
                    \/ m1.mask[p]
                    \/ m2.mask[p]
                    \/ NonPositive(m1.data[p])
                    \/ NonPositive(m2.data[p])

\* A result with a valid pixel and a pixel that is invalid only because the
\* numerator's raw value is <= 0.
C6_Witness ==
    /\ pc = "ratio_done"
    /\ \E p, q \in Pixels :
        /\ ~new_dataset["ar"].mask[q]
        /\ new_dataset["ar"].mask[p]
        /\ ~new_dataset["a1"].mask[p]
        /\ ~new_dataset["a2"].mask[p]
        /\ NonPositive(new_dataset["a1"].data[p])
        /\ ~NonPositive(new_dataset["a2"].data[p])

\* r is exactly the quotient n / d of two finite floats, d # 0.
IsQuotient(r, n, d) ==
    /\ r.k = "num"
    /\ r.n * n.d * d.n = r.d * n.n * d.d

\* C7: the ratio is masked wherever the denominator's raw value is <= 0,
\* whatever the numerator's, and at every unmasked pixel its value is exactly
\* numerator / denominator.
C7_RatioExact ==
    pc = "ratio_done" =>
        LET m1 == new_dataset["a1"]
            m2 == new_dataset["a2"]
            r == new_dataset["ar"]
        IN  \A p \in Pixels :
                /\ NonPositive(m2.data[p]) => r.mask[p]
                /\ ~r.mask[p] => IsQuotient(r.data[p], m1.data[p], m2.data[p])

\* A pixel masked for its denominator alone, and unmasked pixels whose ratio
\* is above 1 and is not a whole number.
C7_Witness ==
    /\ pc = "ratio_done"
    /\ \E p, q \in Pixels :
        /\ NonPositive(new_dataset["a2"].data[p])
        /\ ~NonPositive(new_dataset["a1"].data[p])
        /\ ~new_dataset["a1"].mask[p]
        /\ ~new_dataset["a2"].mask[p]
        /\ new_dataset["ar"].mask[p]
        /\ ~new_dataset["ar"].mask[q]
        /\ new_dataset["ar"].data[q] = Num(3, 2)

\* The file of kind key was written by this run.
Written(key) ==
    /\ ~dry_run
    /\ writable
    /\ export_path(OutStem, key, Suffix) \in Range(calls)

\* C8: the mask is only ever widened.  A pass of the threshold loop keeps
\* every masked pixel masked; the mask of 'ar' contains the combined mask and
\* adds the pixels with a raw value <= 0; every pixel that is invalid in a
\* masked grid is the fill value nan in the file written for the grid.
C8_MaskOnlyWidens ==
    /\ [][pc = "loop" =>
            MaskedPixels(combined_mask) \subseteq MaskedPixels(combined_mask')]_vars
    /\ [](Thresholded /\ "ar" \in DOMAIN new_dataset =>
            MaskedPixels(new_dataset["ar"].mask) =
                MaskedPixels(combined_mask)
                \cup {p \in Pixels : \/ NonPositive(dataset["a1"][p])
                                     \/ NonPositive(dataset["a2"][p])})
    /\ [](pc \in {"export", "done"} =>
            \A key \in DOMAIN new_dataset :
                Written(key) =>
                    \A p \in MaskedPixels(new_dataset[key].mask) :
                        files[export_path(OutStem, key, Suffix)][p].k = "nan")

\* A finished export where the thresholds mask a pixel, the ratio masks a
\* further pixel, and the file of 'ar' holds nan at both.
C8_Witness ==
    /\ pc = "done"
    /\ "ar" \in DOMAIN new_dataset
    /\ Written("ar")
    /\ MaskedPixels(combined_mask) # {}
    /\ MaskedPixels(new_dataset["ar"].mask) \ MaskedPixels(combined_mask) # {}
    /\ \A p \in MaskedPixels(new_dataset["ar"].mask) :
        files[export_path(OutStem, "ar", Suffix)][p].k = "nan"

\* Every kind of the dataset was passed to asc_export once, under its path,
\* and nothing else was.
OneCallPerKind ==
    /\ Len(calls) = Cardinality(DOMAIN new_dataset)
    /\ \A key \in DOMAIN new_dataset :
        export_path(OutStem, key, Suffix) \in Range(calls)

\* No file but those of the dataset's kinds differs from before the run.
OnlyDatasetFiles ==
    \A path \in DOMAIN files :
        (\A key \in DOMAIN new_dataset :
            path # export_path(OutStem, key, Suffix))
        => path \in DOMAIN InitFiles /\ files[path] = InitFiles[path]

\* The value v has at most SigDigits significant decimal digits.
FitsSigDigits(v) ==
    (v.k = "num" /\ v.n # 0) =>
        LET s == SigDigits - 1 - FloorLog10(Abs(v.n), v.d)
        IN  IF s >= 0 THEN (v.n * Pow10(s)) % v.d = 0
            ELSE v.n % (v.d * Pow10(-s)) = 0

\* t is v to SigDigits significant digits: within half a unit of the last
\* of these digits (nan, inf and 0 are kept as they are).
ToSigDigits(t, v) ==
    IF v.k # "num" \/ v.n = 0 THEN t = v
    ELSE LET x == FloorLog10(Abs(v.n), v.d)
             s == SigDigits - 1 - x
             err == Abs(t.n * v.d - v.n * t.d)
         IN  /\ t.k = "num"
             /\ IF s >= 0 THEN 2 * err * Pow10(s) <= v.d * t.d
                ELSE 2 * err <= v.d * t.d * Pow10(-s)

C10_DryRunWritesNothing ==
    /\ (pc \in {"export", "done"} /\ dry_run) => files = InitFiles
    /\ (pc = "done" /\ dry_run) => OneCallPerKind

\* A finished dry run over a dataset of three kinds, one of them with an
\* older file at its destination.
C10_Witness ==
    /\ pc = "done"
    /\ dry_run
    /\ writable
    /\ Len(calls) = 3
    /\ files[export_path(OutStem, "a1", Suffix)] = StaleGrid
    /\ export_path(OutStem, "ar", Suffix) \notin DOMAIN files

\* C11: on a1 = [[2, 0], [4, 8]], a2 = [[1, 5], [0, 2]] with a1 and a2 in
\* [0, inf) the range thresholds flag no pixel, the ratio masks (1, 0),
\* where a2 = 0 (and (0, 1), where a1 = 0), and the exported 'ar' grid is
\* [[2, nan], [nan, 4]], nan exactly at the masked positions.
C11_EndToEnd ==
    /\ (pc = "loop" /\ pending = {}) \/ Thresholded =>
           \A p \in Index(2, 2) : ~combined_mask[p]
    /\ Thresholded =>
           /\ new_dataset["ar"].mask[<<1, 0>>]
           /\ MaskedPixels(new_dataset["ar"].mask) = {<<0, 1>>, <<1, 0>>}
    /\ pc = "done" /\ ~dry_run /\ writable =>
           LET ar == files[export_path(OutStem, "ar", Suffix)]
           IN  /\ ar = Grid2x2(Dec(2, 0), FormatG(NaN), FormatG(NaN), Dec(4, 0))
               /\ \A p \in Index(2, 2) :
                      (ParseTok(ar[p]) = NaN) <=> new_dataset["ar"].mask[p]
               /\ ParseTok(ar[<<0, 0>>]) = Whole(2)
               /\ ParseTok(ar[<<1, 1>>]) = Whole(4)

C11_Witness ==
    /\ pc = "done"
    /\ ~dry_run
    /\ writable
    /\ DOMAIN thresholds = {"a1", "a2"}
    /\ export_path(OutStem, "ar", Suffix) \in DOMAIN files

\* C12: for every stem x and every recognized kind k,
\* _asc_get_related_stem(x + "_" + k + ".asc") returns x; "pos_0000_a1.asc"
\* and "pos_0000_a1[%].asc" both resolve to "pos_0000".
C12_StemRecovered ==
    pc = "stem_done" =>
        \A x \in Stems, i \in DOMAIN export_suffixes :
            args.path = x \o "_" \o export_suffixes[i] \o ".asc" => result = x

\* The two paths the claim names do resolve to "pos_0000".
C12_NamedPaths ==
    pc = "stem_done" /\ args.path \in {"pos_0000_a1.asc", "pos_0000_a1[%].asc"}
        => result = "pos_0000"

\* No pattern of export_suffixes ends the name of the path.
NoSuffixMatches ==
    \A i \in DOMAIN export_suffixes :
        ~endswith(splitext(args.path).name, "_" \o export_suffixes[i])

\* C14: when no recognized suffix ends the name, _asc_get_related_stem does
\* not abort: it returns the name (the path without its extension), with no
\* warning for the extension '.img' and with a warning for any other.
C14_FallbackStem ==
    /\ pc \in {"stem", "stem_done"}
    /\ pc = "stem_done" /\ NoSuffixMatches =>
           /\ result = splitext(args.path).name
           /\ splitext(args.path).ext = ".img" => log = <<>>
           /\ splitext(args.path).ext # ".img" =>
                  /\ Len(log) = 2
                  /\ SubSeq(log[1], 1, 8) = "Warning:"

C14_Witness ==
    /\ pc = "stem_done"
    /\ NoSuffixMatches
    /\ args.path = "pos_0000.asc"
    /\ result = "pos_0000"
    /\ log # <<>>

\* The sum of the whole numbers g[q] over the pixels q of the grid within h
\* rows and h columns of p.
RECURSIVE SumN(_, _)
SumN(g, S) ==
    IF S = {} THEN 0
    ELSE LET q == CHOOSE q \in S : TRUE IN g[q].n + SumN(g, S \ {q})

WindowSum(g, p, h) ==
    SumN(g, {q \in DOMAIN g : Abs(q[1] - p[1]) <= h /\ Abs(q[2] - p[2]) <= h})

\* C15: 'binned_photons' has the shape of 'photons', and its value at every
\* pixel (i, j) is the sum of the photons over the pixels of the grid within
\* h rows and h columns of (i, j), edge pixels included; on the 3x3 grid of
\* ones with h = 1 the centre is 9 and each corner 4.
C15_WindowSum ==
    pc = "start" =>
        LET photons == dataset["photons"]
            binned == dataset["binned_photons"]
        IN  /\ DOMAIN binned = DOMAIN photons
            /\ \A p \in DOMAIN photons :
                   binned[p] = Whole(WindowSum(photons, p, args.bh_bin))
            /\ DOMAIN photons = Index(3, 3)
               /\ (\A p \in DOMAIN photons : photons[p] = Whole(1))
               /\ args.bh_bin = 1 =>
                   /\ binned[<<1, 1>>] = Whole(9)
                   /\ \A p \in {0, 2} \X {0, 2} : binned[p] = Whole(4)

C15_Witness ==
    /\ pc = "start"
    /\ args.bh_bin = 1
    /\ \A p \in DOMAIN dataset["photons"] : dataset["photons"][p] = Whole(1)
    /\ dataset["binned_photons"][<<1, 1>>] = Whole(9)
    /\ dataset["binned_photons"][<<0, 2>>] = Whole(4)

\* The recognized kinds whose file is on disk.
KindsOnDisk ==
    {import_suffixes[i] : i \in {j \in DOMAIN import_suffixes :
                                    DiskPath(import_suffixes[j]) \in DOMAIN files}}

\* C13: the keys of the dataset asc_load_all_related returns are exactly
\* the recognized kinds whose file stem + "_" + k + ".asc" is on disk; a
\* kind whose file is missing is passed over without an error, and
\* 'statistic_all' is never a key.  With the files of a1, a2 and chi the
\* keys are {a1, a2, chi}.
C13_LoadedKinds ==
    /\ [](pc = "bin" =>
             /\ DOMAIN dataset = KindsOnDisk
             /\ "statistic_all" \notin DOMAIN dataset
             /\ DOMAIN files \ {DiskPath("statistic_all")}
                    = {DiskPath("a1"), DiskPath("a2"), DiskPath("chi")}
                 => DOMAIN dataset = {"a1", "a2", "chi"})
    /\ [][pc = "load" /\ todo # <<>> /\ DiskPath(Head(todo)) \notin DOMAIN files
              => pc' = "load" /\ dataset' = dataset /\ log' = log]_vars

C13_Witness ==
    /\ pc = "bin"
    /\ DOMAIN dataset = {"a1", "a2", "chi"}
    /\ DiskPath("statistic_all") \in DOMAIN files
    /\ DiskPath("photons") \notin DOMAIN files

\* Every file on disk holds numbers only, and all have one shape.
FilesWellFormed ==
    /\ \A f \in DOMAIN files : ~loadtxt_raises(files, f)
    /\ \A f, g \in DOMAIN files : DOMAIN files[f] = DOMAIN files[g]

\* C16: a missing file is never fatal: whatever subset of the recognized
\* kinds is on disk (here: not the empty one, and well-formed files of one
\* shape), the run of load, add_binned_photons, threshold and export raises
\* no error.
C16_MissingFileNeverFatal ==
    FilesWellFormed /\ {"a1", "a2"} \subseteq KindsOnDisk => pc # "error"

\* Two grids of the dataset differ in shape.
ShapesDiffer ==
    \E k1, k2 \in DOMAIN dataset : DOMAIN dataset[k1] # DOMAIN dataset[k2]

\* C17: if two grids of the set differ in shape, threshold_reasonably
\* returns no masked dataset and nothing is exported.
C17_ShapeMismatchFatal ==
    ShapesDiffer => ~Thresholded /\ calls = <<>> /\ new_dataset = <<>>

\* The text of the file the codec reads, and its tokens in reading order.
CodecText == files[CodecPath]
AllNumeric(text) == \A p \in DOMAIN text : text[p].k # "text"

\* A flat sequence of count values: the values on one line, or one value on
\* each line.
FlatOf(text, count) ==
    /\ Cardinality(DOMAIN text) = count
    /\ \/ Lines(text) = {0}
       \/ \A i \in Lines(text) : Columns(text, i) = 1

\* A matrix of h lines of w values.
MatrixOf(text, h, w) == DOMAIN text = Index(h, w)

\* The k-th token of a text in reading order, k counted from 0.
TokenAt(text, k) ==
    text[CHOOSE p \in DOMAIN text :
            Cardinality({q \in DOMAIN text :
                q[1] < p[1] \/ (q[1] = p[1] /\ q[2] < p[2])}) = k]

ToDigits(t, v, digits) ==
    IF v.k # "num" \/ v.n = 0 THEN t = v
    ELSE LET x == FloorLog10(Abs(v.n), v.d)
             s == digits - 1 - x
             err == Abs(t.n * v.d - v.n * t.d)
         IN  /\ t.k = "num"
             /\ IF s >= 0 THEN 2 * err * Pow10(s) <= v.d * t.d
                ELSE 2 * err <= v.d * t.d * Pow10(-s)

\* asc_export wrote the grid args.matrix and asc_load has run on the file.
RoundTrip ==
    /\ "matrix" \in DOMAIN args
    /\ pc \in {"asc_loaded", "error"}
    /\ ~args.dry_run
    /\ writable

\* The file holds one line per row of the grid, and asc_load returns a grid
\* of the grid's shape whose values are the grid's to `digits` digits.
RoundTripTo(digits) ==
    RoundTrip =>
        /\ pc = "asc_loaded"
        /\ DOMAIN files[CodecPath] = DOMAIN args.matrix
        /\ \A i \in Lines(args.matrix) :
               Columns(files[CodecPath], i) = Columns(args.matrix, i)
        /\ DOMAIN result = DOMAIN args.matrix
        /\ \A p \in DOMAIN result : ToDigits(result[p], args.matrix[p], digits)

LoadFailed ==
    /\ "matrix" \notin DOMAIN args
    /\ "asciifile" \in DOMAIN args
    /\ pc \in {"asc_loaded", "error"}
    /\ loadtxt_raises(files, args.asciifile)

Printed(line) == \E i \in DOMAIN log : log[i] = line

\* C20: when reading or parsing the file fails, asc_load reports the
\* failure, does not report success, and returns no grid to its caller.
C20_FailedLoad ==
    LoadFailed =>
        /\ Printed("loadtxt: couldn't load " \o args.asciifile)
        /\ ~Printed("success.")
        /\ pc = "error"
        /\ result = NoGrid

\* What does hold of a failed load: the failure is printed, np.loadtxt is
\* not called again, and the caller gets an exception, not a grid.
C20_FailureRaises ==
    LoadFailed =>
        /\ Printed("loadtxt: couldn't load " \o args.asciifile)
        /\ pc = "error"
        /\ result = NoGrid

\* The files the call matched, and those of them whose processing succeeded
Matched == files_non_recursively(args.dirpath, args.suffixes)
Succeeded == SelectSeq(Matched, LAMBDA f : files[f].readable)

\* The histogram of one file, computed apart from the accumulation
HistOf(f) ==
    IF args.log THEN ratiohist(files, f, 0, 4000).h
    ELSE flimhist(files, f, 0, 4000).h

\* The bin-wise sum of the histograms of the files of q, each counted once
BinCount(h, k) == IF k \in DOMAIN h THEN h[k] ELSE 0
BinwiseSum(q) ==
    LET hs == [i \in DOMAIN q |-> HistOf(q[i])]
        bins == UNION {DOMAIN hs[i] : i \in DOMAIN q}
    IN  [k \in bins |-> SumSeq([i \in DOMAIN q |-> BinCount(hs[i], k)])]

\* C21: whatever the order in which the workers finish and their futures
\* are yielded, the call returns the bin-wise sum of the histograms of
\* exactly the matched files whose processing succeeded, each counted once
\* (the first file, read for the edges too, included once); a file whose
\* worker fails adds nothing and, the loop being under way, the call still
\* returns or can go on.
C21_SameTotal ==
    /\ pc = "hist_done" =>
        /\ Succeeded # <<>>
        /\ result[1] = array(BinwiseSum(Succeeded))
    /\ pc = "pool" =>
        /\ ENABLED NextHist
        /\ \A f \in DOMAIN locals.futures :
            locals.futures[f].state # "running" =>
                (locals.futures[f].value.k = "None" <=> ~files[f].readable)

\* C21 witness: three files, the second unreadable, the others with counts
\* in different bins, and the call has returned
C21_Witness ==
    /\ pc = "hist_done"
    /\ Len(Matched) = 3
    /\ Len(Succeeded) = 2
    /\ ~files[Matched[2]].readable
    /\ files[Matched[1]].data = <<1, 10>>
    /\ files[Matched[3]].data = <<1, 10>>
    /\ ~args.log
    /\ result[1] = array((1 :> 2) @@ (2 :> 2))

\* Whether converting the path p raises, in the loop over several paths
Fails(p) ==
    convert(files, p, "out/x_f32.tif", args, writable, TRUE).raised

\* The paths up to and including the first one that fails, all of them when
\* none fails
UpToFirstFailure(paths) ==
    LET bad == {i \in DOMAIN paths : Fails(paths[i])}
    IN  IF bad = {} THEN paths
        ELSE SubSeq(paths, 1, CHOOSE i \in bad : \A j \in bad : i <= j)

\* C22: in the loop over several paths an error of one file is printed and
\* counted and, without --fail-fast, never ends the run: the run ends with
\* every path processed exactly once, in order, and ok + failed equal to
\* the number of paths.  With --fail-fast the run ends at the first file
\* that fails, and no later path is processed.
C22_PerFileErrors ==
    Len(args.paths) > 1 /\ pc # "main_tiff" =>
        /\ calls \o todo = args.paths \/ pc = "error"
        /\ locals.ok + locals.failed = Len(calls)
        /\ locals.failed = Cardinality({i \in DOMAIN calls : Fails(calls[i])})
        /\ \A i \in DOMAIN calls : Fails(calls[i]) => Printed("[ERR] " \o calls[i])
        /\ ~args.fail_fast =>
            /\ pc # "error"
            /\ pc = "converted" =>
                /\ calls = args.paths
                /\ locals.ok + locals.failed = Len(args.paths)
        /\ args.fail_fast =>
            /\ pc = "error" <=> locals.failed > 0
            /\ pc \in {"error", "converted"} =>
                calls = UpToFirstFailure(args.paths)
        /\ pc \in {"error", "converted"} \/ ENABLED NextTiff

\* C22 witness: three paths of which the second fails, without --fail-fast,
\* and the run has ended with 2 converted and 1 failed
C22_Witness ==
    /\ pc = "converted"
    /\ ~args.fail_fast
    /\ Len(args.paths) = 3
    /\ Fails(args.paths[2])
    /\ locals = [ok |-> 2, failed |-> 1]
    /\ calls = args.paths

\* C22 witness of --fail-fast: the first of three paths converts, the
\* second fails and the third is never processed
C22_FailFastWitness ==
    /\ pc = "error"
    /\ args.fail_fast
    /\ Len(args.paths) = 3
    /\ calls = SubSeq(args.paths, 1, 2)
    /\ locals = [ok |-> 1, failed |-> 1]

\* t is a longer form of s: s with something after it
LongerForm(s, t) == Len(t) > Len(s) /\ SubSeq(t, 1, Len(s)) = s

\* The longer form comes first wherever a list holds both forms
LongestFirst(list) ==
    \A i, j \in DOMAIN list :
        LongerForm(list[i], list[j]) => j < i

\* The suffixes of the resolver's list the name of a path ends with
Hits(path) ==
    {i \in DOMAIN export_suffixes :
        endswith(splitext(path).name, "_" \o export_suffixes[i])}

\* No suffix of the list, after its "_", ends another one, and none is
\* listed twice
NoSuffixEndsAnother(list) ==
    \A i, j \in DOMAIN list :
        i # j => ~endswith("_" \o list[j], "_" \o list[i])

TrailingSuffixRemoved(path) ==
    LET name == splitext(path).name
        i == CHOOSE h \in Hits(path) : TRUE
    IN  SubSeq(name, 1, Len(name) - Len("_" \o export_suffixes[i]))

\* C24: when a suffix matches the ending of the name,
\* _asc_get_related_stem returns the name with that trailing suffix removed
\* and every character before it unmodified, also for a name that holds
\* "_" + suffix at an earlier position too.
C24_OnlyTrailingSuffixRemoved ==
    pc = "stem_done" /\ Hits(args.path) # {} =>
        result = TrailingSuffixRemoved(args.path)

\* Where the name holds "_" + suffix only at its end, the trailing suffix
\* alone is removed.
C24_SingleOccurrence ==
    pc = "stem_done" /\ Hits(args.path) # {} =>
        LET name == splitext(args.path).name
            i == CHOOSE h \in Hits(args.path) : TRUE
            before == TrailingSuffixRemoved(args.path)
        IN  replace(before, "_" \o export_suffixes[i], "") = before
                => result = before

\* An array without masked pixels
Unmasked(data) == masked_array(data, [p \in DOMAIN data |-> FALSE])

\* What the masked free_bound_ratio returns for the arrays the scalar one
\* was called with
MaskedRatio == free_bound_ratio(Unmasked(calls[1].m1), Unmasked(calls[1].m2))

\* The pixels that hold the sentinel in the result of the scalar version
SentinelPixels == {p \in DOMAIN result : result[p] = calls[1].invalid}

\* The pixels with m1 <= 0 or m2 <= 0
NotPositive ==
    {p \in DOMAIN calls[1].m1 :
        Le(calls[1].m1[p], Zero) \/ Le(calls[1].m2[p], Zero)}

\* C25: for unmasked m1 and m2 and every sentinel, the pixels the scalar
\* free_bound_ratio marks with the sentinel are the pixels the masked one
\* marks invalid, which are the pixels with m1 <= 0 or m2 <= 0, and at
\* every other pixel both return m1 / m2.
C25_Refines ==
    pc = "scalar_done" =>
        /\ SentinelPixels = {p \in DOMAIN result : MaskedRatio.mask[p]}
        /\ SentinelPixels = NotPositive
        /\ \A p \in DOMAIN result \ NotPositive :
            /\ result[p] = Div(calls[1].m1[p], calls[1].m2[p])
            /\ MaskedRatio.data[p] = result[p]

\* With a sentinel that is not positive, or nan, the two versions mark the
\* same pixels and agree elsewhere.
C25_NonPositiveSentinel ==
    pc = "scalar_done" /\ ~Gt(calls[1].invalid, Zero) =>
        /\ SentinelPixels = {p \in DOMAIN result : MaskedRatio.mask[p]}
        /\ SentinelPixels = NotPositive
        /\ \A p \in DOMAIN result \ NotPositive :
            /\ result[p] = Div(calls[1].m1[p], calls[1].m2[p])
            /\ MaskedRatio.data[p] = result[p]

\* The sample number of a file name: the number after its leading s
SampleNumber(filename) == int(SubSeq(filename, 2, 1 + digit_run(filename, 2)))

\* The groupings of the call that are ranges, as written
IsRange(grouping_str) == range_match(split(grouping_str, ":")[1]).matched
RangeOf(grouping_str) ==
    LET m == range_match(split(grouping_str, ":")[1])
    IN  m.start..m.end

\* The first grouping of the call one of whose patterns starts the name, 0
\* when there is none
FirstMatching ==
    LET name == splitext(args.filename).name
        hits == {g \in DOMAIN locals.groupings :
                    \E i \in DOMAIN locals.groupings[g].patterns :
                        startswith(name, locals.groupings[g].patterns[i])}
    IN  IF hits = {} THEN 0 ELSE CHOOSE g \in hits : \A l \in hits : g <= l

\* C26: a file name gets the group of a range grouping sX-sY:G only if its
\* sample number lies in X..Y; it gets the group of the first grouping, in
\* list order, with a matching pattern, and Other when none matches.
C26_RangeGroupsInRange ==
    pc = "assigned" =>
        /\ FirstMatching = 0 => result = "Other"
        /\ FirstMatching # 0 =>
            /\ result = locals.groupings[FirstMatching].group_name
            /\ IsRange(args.groupings[FirstMatching]) =>
                /\ startswith(args.filename, "s")
                /\ SampleNumber(args.filename)
                       \in RangeOf(args.groupings[FirstMatching])

\* The group is that of the first grouping with a pattern that starts the
\* name, and Other without one.
C26_FirstMatchOrOther ==
    pc = "assigned" =>
        /\ FirstMatching = 0 => result = "Other"
        /\ FirstMatching # 0 =>
            result = locals.groupings[FirstMatching].group_name

\* C27: the kinds of the dataset threshold_reasonably returns are the kinds
\* of its input and, exactly when the input holds both a1 and a2, ar; no
\* other kind is added and none is dropped.
C27_KeySet ==
    pc \in {"thresholded", "export", "done"} =>
        /\ "ar" \notin DOMAIN dataset
        /\ DOMAIN new_dataset \ {"ar"} = DOMAIN dataset
        /\ "ar" \in DOMAIN new_dataset <=> {"a1", "a2"} \subseteq DOMAIN dataset

\* C27 witness: a dataset loaded with a1, a2 and photons has been
\* thresholded into a1, a2, photons, binned_photons and ar
C27_Witness ==
    /\ pc = "thresholded"
    /\ DOMAIN dataset = {"a1", "a2", "photons", "binned_photons"}
    /\ DOMAIN new_dataset = {"a1", "a2", "photons", "binned_photons", "ar"}

\* A dataset with a1 and without a2 is returned without ar.
C27_WitnessNoRatio ==
    /\ pc = "thresholded"
    /\ "a1" \in DOMAIN dataset
    /\ "a2" \notin DOMAIN dataset
    /\ "ar" \notin DOMAIN new_dataset

\* C28: for every stem x and every kind k of an exported dataset, the path
\* x + "_" + k + ".th.asc" that asc_export_mas writes with the default
\* suffix is resolved by _asc_get_related_stem back to x.
C28_ExportRoundTrip ==
    pc = "stem_done" =>
        \A x \in Stems, k \in Range(KeyOrder) :
            args.path = export_path(x, k, Suffix) => result = x

\* With the suffix ".asc", a kind of the resolver's list and a stem that
\* does not hold "_" + k, the exported path is resolved back to its stem.
C28_SingleExtension ==
    pc = "stem_done" =>
        \A x \in Stems, k \in Range(export_suffixes) :
            /\ args.path = export_path(x, k, ".asc")
            /\ replace(x, "_" \o k, "") = x
            => result = x

\* C29: threshold_reasonably called on a dataset without kinds ends
\* normally and returns an empty dataset, so that the export that follows
\* writes no file.
C29_EmptyDatasetReturned ==
    DOMAIN dataset = {} /\ pc # "start" =>
        /\ pc \in {"thresholded", "export", "done"}
        /\ DOMAIN new_dataset = {}
        /\ files = InitFiles

\* For a dataset without kinds no file is ever written.
C29_NothingWritten == DOMAIN dataset = {} => files = InitFiles

\* C30: threshold_reasonably and the masked free_bound_ratio leave their
\* inputs as they were: the input dataset keeps its kinds and its raw
\* values at every step, and in the dataset returned the raw value of every
\* kind of the input, at every pixel, masked or not, is the value of the
\* input; masking lays a mask over the values and changes none.
C30_InputsUnchanged ==
    /\ [](pc \in {"thresholded", "export", "done"} =>
            \A key \in DOMAIN dataset :
                new_dataset[key].data = dataset[key])
    /\ [][dataset' = dataset]_vars

\* C30 witness: a pixel of a1 that holds -1 has been masked, the ratio has
\* been computed, and the pixel still holds -1 in the input and under the
\* mask
C30_Witness ==
    /\ pc = "thresholded"
    /\ "ar" \in DOMAIN new_dataset
    /\ \E p \in Pixels :
        /\ new_dataset["a1"].mask[p]
        /\ new_dataset["a1"].data[p] = Whole(-1)
        /\ dataset["a1"][p] = Whole(-1)
====
